---- MODULE Spec2Model ----
(***************************************************************************)
(* Superstore Insights backend: the ingestion cache (DataRepository, and   *)
(* the DataService's own lazy loader), the filter engine (apply_filters),  *)
(* the aggregation engine (the compute_ functions of analytics.py), the    *)
(* fetch of a load under the session's Retry adapter, the DataService's    *)
(* own filter and aggregation methods, and the request boundary (the       *)
(* handlers of routers/sales.py and routes/sales.py, main.py).             *)
(*                                                                         *)
(* Representation.                                                         *)
(*  - A table is [columns |-> set of column names, rows |-> sequence of    *)
(*    rows]; a row is a record with one field per modelled column.  The    *)
(*    string columns have object dtype, as in the test fixture.            *)
(*  - Money is counted in cents (an integer), so round(x, 2) of a sum of   *)
(*    cent amounts is that sum; round(a / b, 2) is Round2Div.              *)
(*  - A date is the integer YYYYMMDD; NaT is the missing date, NaN the     *)
(*    missing number; BadDate / BadNum are raw entries that do not parse.  *)
(*  - Optional[str] is <<>> (None) or <<s>>; Optional[List[str]] is <<>>   *)
(*    (None) or <<list>>.                                                  *)
(***************************************************************************)
EXTENDS Integers, Sequences, FiniteSets, TLC

VARIABLES
    df,               \* DataRepository._df: NoTable, or the cached table
    last_refresh,     \* DataRepository._last_refresh: 0 (None) or a clock value
    svc_df,           \* DataService._df
    svc_last_refresh, \* DataService._last_refresh
    clock,            \* the wall clock read by datetime.now()
    call,             \* the last cache access: who, how, whether _load ran, outcome
    filtered,         \* the last apply_filters call: its spec, its input, its result
    resp,             \* the last compute_* call: the view, its input, its result
    threads,          \* per thread: where it is in get_dataframe and its locals
    session,          \* the fetch of one load: session.get under the Retry adapter
    http              \* the request at the API boundary, and the last response to an
                      \* unexpected error

vars == <<df, last_refresh, svc_df, svc_last_refresh, clock, call, filtered, resp,
          threads, session, http>>

----------------------------------------------------------------------------
(* Bounds of the model *)

MaxRows == 2          \* rows of a generated payload
MaxClock == 3         \* the clock stops here: no load starts at MaxClock
NumThreads == 2       \* threads that call get_dataframe concurrently

----------------------------------------------------------------------------
(* Values *)

NaT == 0
NaN == -999999
BadDate == -1
BadNum == -999998

NoTable == [columns |-> {}, rows |-> <<>>, none |-> TRUE]
Table(cols, rows) == [columns |-> cols, rows |-> rows, none |-> FALSE]

REQUIRED_COLUMNS ==
    {"Order Date", "Ship Date", "Sales", "Profit", "Quantity",
     "Discount", "Order ID", "Customer ID", "Customer Name",
     "Segment", "Region", "Category", "Sub-Category", "Product Name"}

\* The columns of the Superstore file: the required ones and the rest.
FullColumns == REQUIRED_COLUMNS \cup {"Row ID", "Ship Mode", "Country", "City",
                                     "State", "Postal Code", "Product ID"}

Row(oid, cid, od, sd, seg, reg, st, cat, sub, s, p, q, d) ==
    [order_id |-> oid, customer_id |-> cid, order_date |-> od, ship_date |-> sd,
     segment |-> seg, region |-> reg, state |-> st, category |-> cat,
     sub_category |-> sub, sales |-> s, profit |-> p, quantity |-> q,
     discount |-> d]

\* The five rows of the test fixture (amounts in cents, discount in percent).
SampleRows ==
    << Row("ORD-001", "CUST-001", 20230115, 20230120, "Consumer", "East",
           "New York", "Technology", "Phones", 50000, 10000, 1, 0),
       Row("ORD-001", "CUST-001", 20230115, 20230120, "Consumer", "East",
           "New York", "Office Supplies", "Paper", 5000, 1000, 5, 10),
       Row("ORD-002", "CUST-002", 20230220, 20230225, "Corporate", "West",
           "California", "Furniture", "Chairs", 30000, -2000, 1, 20),
       Row("ORD-003", "CUST-003", 20230310, 20230315, "Home Office", "Central",
           "Illinois", "Technology", "Computers", 100000, 20000, 1, 0),
       Row("ORD-003", "CUST-003", 20230310, 20230315, "Home Office", "Central",
           "Illinois", "Office Supplies", "Binders", 2500, 500, 10, 15) >>

\* Further raw rows a payload may hold: a refund (negative sales), a row
\* whose numbers do not parse and whose state is no US state, a row whose
\* order date does not parse, a second line of ORD-002 with no profit, and
\* an order of the year before, from the District of Columbia.
EdgeRows ==
    << Row("ORD-004", "CUST-001", 20230220, 20230301, "Consumer", "East",
           "Texas", "Furniture", "Chairs", -40000, 3000, 1, 0),
       Row("ORD-005", "CUST-002", 20230115, 20230116, "Corporate", "West",
           "Puerto Rico", "Technology", "Phones", BadNum, BadNum, NaN, BadNum),
       Row("ORD-006", "CUST-003", BadDate, 20230105, "Consumer", "East",
           "New York", "Furniture", "Tables", 7000, 700, 2, 0),
       Row("ORD-002", "CUST-002", 20230220, 20230110, "Corporate", "West",
           "California", "Furniture", "Tables", 10000, 0, 3, 0),
       Row("ORD-007", "CUST-004", 20221231, 20230103, "Corporate", "East",
           "District of Columbia", "Office Supplies", "Paper", 1250, 250, 2, 0) >>

RowPool == SampleRows \o EdgeRows

----------------------------------------------------------------------------
(* The remote source.  A payload is what one load meets: how the fetch    *)
(* ends, whether each Arrow reader accepts the bytes, and the table the    *)
(* bytes hold.                                                             *)

Payload(fetch, feather, stream, cols, rows) ==
    [fetch |-> fetch, feather |-> feather, stream |-> stream,
     columns |-> cols, rows |-> rows]

\* No payload: nothing was fetched.
NoPayload == Payload("none", FALSE, FALSE, {}, <<>>)

\* Index sequences i1 < i2 < ... of length <= n into a pool of m rows.
Increasing(n, m) ==
    { s \in UNION { [1..k -> 1..m] : k \in 0..n } :
        \A i \in 1..Len(s) : i < Len(s) => s[i] < s[i + 1] }

Pick(pool, idx) == [i \in 1..Len(idx) |-> pool[idx[i]]]

\* The row sequences of the generated payloads: the rows of the pool, in
\* the pool's order, at most MaxRows of them; and the whole test fixture.
RowSeqs ==
    { Pick(RowPool, idx) : idx \in Increasing(MaxRows, Len(RowPool)) }
        \cup {SampleRows}

GoodPayloads == { Payload("ok", TRUE, TRUE, FullColumns, rows) : rows \in RowSeqs }

\* The source behaviours the cache life cycle is exercised with.
Sources ==
    { Payload("connection", FALSE, FALSE, {}, <<>>),
      Payload("timeout", FALSE, FALSE, {}, <<>>),
      Payload("http", FALSE, FALSE, {}, <<>>),
      Payload("request", FALSE, FALSE, {}, <<>>),
      Payload("ok", FALSE, FALSE, {}, <<>>),
      Payload("ok", FALSE, TRUE, FullColumns, SubSeq(SampleRows, 1, 2)),
      Payload("ok", TRUE, FALSE, FullColumns, SubSeq(SampleRows, 3, 5)),
      Payload("ok", TRUE, TRUE, FullColumns \ {"Profit"}, SampleRows),
      Payload("ok", TRUE, TRUE, FullColumns \ {"State"}, SubSeq(SampleRows, 3, 3)),
      Payload("ok", TRUE, TRUE, FullColumns, SampleRows),
      Payload("ok", TRUE, TRUE, FullColumns, EdgeRows),
      Payload("ok", TRUE, TRUE, FullColumns, SubSeq(EdgeRows, 1, 2)),
      Payload("ok", TRUE, TRUE, FullColumns, <<>>) }

----------------------------------------------------------------------------
(* The fetch of _load: session.get through the HTTPAdapter that            *)
(* _create_session mounts with Retry(total=3, status_forcelist=[429, 500,  *)
(* 502, 503, 504], allowed_methods=["GET"]), then raise_for_status and     *)
(* the except clauses of _load.                                            *)

RetryTotal == 3

\* A forcelist that also holds 404.
status_forcelist_with_404 == {404, 429, 500, 502, 503, 504}

status_forcelist == {429, 500, 502, 503, 504}

\* What one request meets: a response with a status, or no response.
Status(code) == [kind |-> "status", status |-> code]
ConnectFailure == [kind |-> "connect", status |-> 0]
ConnectTimeout == [kind |-> "connect_timeout", status |-> 0]
ReadTimeout == [kind |-> "read_timeout", status |-> 0]

Outcomes ==
    { Status(c) : c \in {200, 400, 403, 404, 429, 500, 502, 503, 504} }
        \cup {ConnectFailure, ConnectTimeout, ReadTimeout}

\* Retry.is_exhausted, run too early: no retry is left at 0.
is_exhausted_at_zero(total) == total <= 0

\* Retry.is_exhausted: a counter below 0 (a counter at 0 is not counted).
is_exhausted(total) == total < 0

\* HTTPAdapter.send on MaxRetryError: the requests exception by the reason
\* the retries ended with.
send_raises(o) ==
    CASE o.kind = "connect_timeout" -> "ConnectTimeout"
      [] o.kind = "status" -> "RetryError"
      [] OTHER -> "ConnectionError"

\* The except clauses of _load, in their order: the first whose class the
\* exception is an instance of (ConnectTimeout is a ConnectionError and a
\* Timeout; ReadTimeout is a Timeout).
except_clause(exc) ==
    CASE exc \in {"ConnectionError", "ConnectTimeout"} -> "connection"
      [] exc = "ReadTimeout" -> "timeout"
      [] exc = "HTTPError" -> "http"
      [] OTHER -> "request"

NoSession == [pc |-> "idle", total |-> 0, attempts |-> 0, history |-> <<>>,
              status |-> 0, exc |-> "", fetch |-> ""]

\* self._session.get(url, timeout=...)
SessionGet ==
    /\ session.pc = "idle"
    /\ session' = [NoSession EXCEPT !.pc = "sending", !.total = RetryTotal]
    /\ UNCHANGED <<df, last_refresh, svc_df, svc_last_refresh, clock, call, filtered,
                   resp, threads, http>>

\* One request of the adapter's retry loop: a response whose status is not
\* in the forcelist is returned; any other outcome takes one from the
\* Retry counter and, unless that exhausts it, is followed by a new request.
Urlopen ==
    /\ session.pc = "sending"
    /\ \E o \in Outcomes :
          LET sent == [session EXCEPT !.attempts = @ + 1,
                                      !.history = Append(@, o)]
          IN  IF o.kind = "status" /\ o.status \notin status_forcelist
              THEN session' = [sent EXCEPT !.pc = "response", !.status = o.status]
              ELSE IF is_exhausted(session.total - 1)
                   THEN session' = [sent EXCEPT !.pc = "raised",
                                                !.total = @ - 1,
                                                !.exc = send_raises(o)]
                   ELSE session' = [sent EXCEPT !.total = @ - 1]
    /\ UNCHANGED <<df, last_refresh, svc_df, svc_last_refresh, clock, call, filtered,
                   resp, threads, http>>

\* response.raise_for_status()
RaiseForStatus ==
    /\ session.pc = "response"
    /\ IF session.status >= 400 /\ session.status < 600
       THEN session' = [session EXCEPT !.pc = "raised", !.exc = "HTTPError"]
       ELSE session' = [session EXCEPT !.pc = "done", !.fetch = "ok"]
    /\ UNCHANGED <<df, last_refresh, svc_df, svc_last_refresh, clock, call, filtered,
                   resp, threads, http>>

\* The except clause that catches the exception picks the DataLoadError.
Except ==
    /\ session.pc = "raised"
    /\ session' = [session EXCEPT !.pc = "done", !.fetch = except_clause(session.exc)]
    /\ UNCHANGED <<df, last_refresh, svc_df, svc_last_refresh, clock, call, filtered,
                   resp, threads, http>>

\* The load goes on with the response, or has raised: the fetch is over.
EndFetch ==
    /\ session.pc = "done"
    /\ session' = NoSession
    /\ UNCHANGED <<df, last_refresh, svc_df, svc_last_refresh, clock, call, filtered,
                   resp, threads, http>>

FetchNext == SessionGet \/ Urlopen \/ RaiseForStatus \/ Except \/ EndFetch

----------------------------------------------------------------------------
(* DataRepository *)

\* The outcome of a call: the exception raised, with its message and the
\* column names that the message lists, or the table returned.
Raised(kind, msg) == [err |-> kind, msg |-> msg, missing |-> {}, table |-> NoTable]
Returned(t) == [err |-> "", msg |-> "", missing |-> {}, table |-> t]

\* The bytes of a payload under a reader that starts at position pos of the
\* BytesIO: a reader accepts the bytes only from their start, and a read,
\* failed or not, leaves the position behind the start.
read_feather(p, pos) == [ok |-> p.feather /\ pos = 0, pos |-> 1]
open_stream(p, pos) == [ok |-> p.stream /\ pos = 0, pos |-> 1]

\* _read_arrow whose fallback reads on from where read_feather stopped.
_read_arrow_no_rewind(p) ==
    LET primary == read_feather(p, 0)
    IN  IF primary.ok THEN Returned(Table(p.columns, p.rows))
        ELSE IF open_stream(p, primary.pos).ok
             THEN Returned(Table(p.columns, p.rows))
             ELSE Raised("ArrowInvalid", "")

\* _read_arrow: payload.seek(0) and read_feather; on any failure
\* payload.seek(0) again and the IPC stream reader; raises when both fail.
_read_arrow(p) ==
    LET primary == read_feather(p, 0)
    IN  IF primary.ok THEN Returned(Table(p.columns, p.rows))
        ELSE IF open_stream(p, 0).ok
             THEN Returned(Table(p.columns, p.rows))
             ELSE Raised("ArrowInvalid", "")

\* _validate_schema that reports every required column as missing.
_validate_schema_all(t) ==
    LET missing == REQUIRED_COLUMNS \ t.columns
    IN  IF missing # {}
        THEN [Raised("ValueError", "missing") EXCEPT !.missing = REQUIRED_COLUMNS]
        ELSE Returned(t)

\* _validate_schema: ValueError naming the missing required columns.
_validate_schema(t) ==
    LET missing == REQUIRED_COLUMNS \ t.columns
    IN  IF missing # {}
        THEN [Raised("ValueError", "missing") EXCEPT !.missing = missing]
        ELSE Returned(t)

to_datetime_coerce(v) == IF v = BadDate THEN NaT ELSE v
to_numeric_coerce(v) == IF v = BadNum THEN NaN ELSE v

\* _coerce_types: errors="coerce" turns an entry that does not parse into
\* a missing value.
_coerce_types(t) ==
    Table(t.columns,
          [i \in 1..Len(t.rows) |->
              [t.rows[i] EXCEPT
                  !.order_date = to_datetime_coerce(@),
                  !.ship_date = to_datetime_coerce(@),
                  !.sales = to_numeric_coerce(@),
                  !.profit = to_numeric_coerce(@),
                  !.quantity = to_numeric_coerce(@),
                  !.discount = to_numeric_coerce(@)]])

fillna0(v) == IF v = NaN THEN 0 ELSE v

\* _clean_data: fillna(0) on the four numeric columns, then
\* dropna(subset=["Order Date"]).
_clean_data(t) ==
    LET filled == [i \in 1..Len(t.rows) |->
                      [t.rows[i] EXCEPT
                          !.sales = fillna0(@), !.profit = fillna0(@),
                          !.quantity = fillna0(@), !.discount = fillna0(@)]]
        HasDate(r) == r.order_date # NaT
    IN  Table(t.columns, SelectSeq(filled, HasDate))

\* _load: fetch, deserialize, validate, coerce, clean.
_load(p) ==
    IF p.fetch # "ok" THEN Raised("DataLoadError", p.fetch)
    ELSE LET parsed == _read_arrow(p)
         IN  IF parsed.err # "" THEN Raised("DataLoadError", "parse")
             ELSE LET valid == _validate_schema(parsed.table)
                  IN  IF valid.err # ""
                      THEN [Raised("DataValidationError", valid.msg)
                                EXCEPT !.missing = valid.missing]
                      ELSE Returned(_clean_data(_coerce_types(valid.table)))

\* One access to a cache: which cache, how, whether the load ran and on
\* which payload, and the outcome.
Access(obj, force, loaded, p, r) ==
    [obj |-> obj, force |-> force, loaded |-> loaded, src |-> p,
     err |-> r.err, msg |-> r.msg, missing |-> r.missing, table |-> r.table]

NoCall == Access("none", FALSE, FALSE, NoPayload, Returned(NoTable))

\* get_dataframe that stamps the refresh time before it loads.
get_dataframe_stamp_first(force, p) ==
    IF force \/ df.none
    THEN /\ clock < MaxClock
         /\ clock' = clock + 1
         /\ last_refresh' = clock'
         /\ LET r == _load(p)
            IN  IF r.err = ""
                THEN /\ df' = r.table
                     /\ call' = Access("repo", force, TRUE, p, Returned(r.table))
                ELSE /\ UNCHANGED df
                     /\ call' = Access("repo", force, TRUE, p, r)
         /\ UNCHANGED <<svc_df, svc_last_refresh, filtered, resp, threads, session, http>>
    ELSE /\ call' = Access("repo", force, FALSE, NoPayload, Returned(df))
         /\ UNCHANGED <<df, last_refresh, svc_df, svc_last_refresh, clock,
                        filtered, resp, threads, session, http>>

\* DataRepository.get_dataframe(force_refresh=force), meeting source p.
get_dataframe(force, p) ==
    IF force \/ df.none
    THEN /\ clock < MaxClock
         /\ clock' = clock + 1
         /\ LET r == _load(p)
            IN  IF r.err = ""
                THEN /\ df' = r.table
                     /\ last_refresh' = clock'
                     /\ call' = Access("repo", force, TRUE, p, Returned(r.table))
                ELSE /\ UNCHANGED <<df, last_refresh>>
                     /\ call' = Access("repo", force, TRUE, p, r)
         /\ UNCHANGED <<svc_df, svc_last_refresh, filtered, resp, threads, session, http>>
    ELSE /\ call' = Access("repo", force, FALSE, NoPayload, Returned(df))
         /\ UNCHANGED <<df, last_refresh, svc_df, svc_last_refresh, clock,
                        filtered, resp, threads, session, http>>

----------------------------------------------------------------------------
(* DataService's own loader *)

\* _load_data: the same steps without cleaning (each reader on a BytesIO
\* of its own); to_datetime without
\* errors="coerce" raises on an entry that does not parse; every failure
\* is re-raised as RuntimeError.
_load_data(p) ==
    IF p.fetch # "ok" THEN Raised("RuntimeError", p.fetch)
    ELSE LET parsed == IF read_feather(p, 0).ok \/ open_stream(p, 0).ok
                       THEN Returned(Table(p.columns, p.rows))
                       ELSE Raised("ArrowInvalid", "")
         IN  IF parsed.err # "" THEN Raised("RuntimeError", "parse")
             ELSE LET t == parsed.table
                  IN  IF REQUIRED_COLUMNS \ t.columns # {}
                      THEN [Raised("RuntimeError", "missing")
                                EXCEPT !.missing = REQUIRED_COLUMNS \ t.columns]
                      ELSE IF \E i \in 1..Len(t.rows) :
                                  \/ t.rows[i].order_date = BadDate
                                  \/ t.rows[i].ship_date = BadDate
                           THEN Raised("RuntimeError", "date")
                           ELSE Returned(Table(t.columns,
                                    [i \in 1..Len(t.rows) |->
                                        [t.rows[i] EXCEPT
                                            !.sales = to_numeric_coerce(@),
                                            !.profit = to_numeric_coerce(@),
                                            !.quantity = to_numeric_coerce(@),
                                            !.discount = to_numeric_coerce(@)]]))

\* DataService.df that loads on every access.
service_df_eager(p) ==
    /\ clock < MaxClock
    /\ clock' = clock + 1
    /\ LET r == _load_data(p)
       IN  IF r.err = ""
           THEN /\ svc_df' = r.table
                /\ svc_last_refresh' = clock'
                /\ call' = Access("svc", FALSE, TRUE, p, Returned(r.table))
           ELSE /\ UNCHANGED <<svc_df, svc_last_refresh>>
                /\ call' = Access("svc", FALSE, TRUE, p, r)
    /\ UNCHANGED <<df, last_refresh, filtered, resp, threads, session>>

\* DataService.df (the property), meeting source p.
service_df(p) ==
    IF svc_df.none
    THEN /\ clock < MaxClock
         /\ clock' = clock + 1
         /\ LET r == _load_data(p)
            IN  IF r.err = ""
                THEN /\ svc_df' = r.table
                     /\ svc_last_refresh' = clock'
                     /\ call' = Access("svc", FALSE, TRUE, p, Returned(r.table))
                ELSE /\ UNCHANGED <<svc_df, svc_last_refresh>>
                     /\ call' = Access("svc", FALSE, TRUE, p, r)
         /\ UNCHANGED <<df, last_refresh, filtered, resp, threads, session>>
    ELSE /\ call' = Access("svc", FALSE, FALSE, NoPayload, Returned(svc_df))
         /\ UNCHANGED <<df, last_refresh, svc_df, svc_last_refresh, clock,
                        filtered, resp, threads, session>>

----------------------------------------------------------------------------
(* The filter engine: filters.apply_filters *)

FilterSpec(sd, ed, rg, sg, cg) ==
    [start_date |-> sd, end_date |-> ed, regions |-> rg, segments |-> sg,
     categories |-> cg]

\* to_datetime with errors="coerce": a string that is no date gives NaT.
to_datetime_lenient(s) ==
    CASE s = "2023-01-15" -> 20230115
      [] s = "2023-02-20" -> 20230220
      [] s = "2023-03-10" -> 20230310
      [] OTHER -> NaT

\* pd.to_datetime of one string: the date it denotes, or BadDate when the
\* string is no date (pandas raises ValueError).
to_datetime(s) ==
    CASE s = "2023-01-15" -> 20230115
      [] s = "2023-02-20" -> 20230220
      [] s = "2023-03-10" -> 20230310
      [] OTHER -> BadDate

\* Python truth of an Optional[str] / Optional[List[str]]: None, "" and []
\* are false.
TruthyStr(o) == o # <<>> /\ o[1] # ""
TruthyList(o) == o # <<>> /\ o[1] # <<>>

\* Series.isin(values)
isin(v, values) == \E j \in 1..Len(values) : values[j] = v

\* date_ge with the bound left out of the range.
date_gt(d, bound) == d # NaT /\ d > bound

\* A comparison with NaT is False.
date_ge(d, bound) == d # NaT /\ d >= bound
date_le(d, bound) == d # NaT /\ d <= bound

\* apply_filters(df, start_date, end_date, regions, segments, categories):
\* the five optional steps in the order of the code; to_datetime raises
\* before the step it belongs to.
apply_filters(t, f) ==
    LET start == IF TruthyStr(f.start_date) THEN to_datetime(f.start_date[1]) ELSE NaT
        end == IF TruthyStr(f.end_date) THEN to_datetime(f.end_date[1]) ELSE NaT
        ByStart(r) == TruthyStr(f.start_date) => date_ge(r.order_date, start)
        ByEnd(r) == TruthyStr(f.end_date) => date_le(r.order_date, end)
        ByRegion(r) == TruthyList(f.regions) => isin(r.region, f.regions[1])
        BySegment(r) == TruthyList(f.segments) => isin(r.segment, f.segments[1])
        ByCategory(r) == TruthyList(f.categories) => isin(r.category, f.categories[1])
    IN  IF start = BadDate \/ end = BadDate
        THEN Raised("ValueError", "date")
        ELSE Returned(Table(t.columns,
                 SelectSeq(SelectSeq(SelectSeq(SelectSeq(SelectSeq(
                     t.rows, ByStart), ByEnd), ByRegion), BySegment), ByCategory)))

----------------------------------------------------------------------------
(* The aggregation engine: analytics.py *)

\* Series.sum(): the sum of the values that are not missing.
RECURSIVE SeriesSum(_, _)
SeriesSum(rows, col) ==
    IF rows = <<>> THEN 0
    ELSE LET v == Head(rows)[col]
         IN  (IF v = NaN THEN 0 ELSE v) + SeriesSum(Tail(rows), col)

\* Series.count(): the number of rows, not of distinct values.
count(rows, col) == Len(rows)

\* Series.nunique()
nunique(rows, col) == Cardinality({ rows[i][col] : i \in 1..Len(rows) })

\* round(n / d * scale, 2) in hundredths, for d # 0: the nearest integer
\* to n * scale * 100 / d, a tie going to the even neighbour.
round2(n, d) ==
    LET num == IF d < 0 THEN 0 - n ELSE n
        den == IF d < 0 THEN 0 - d ELSE d
        q == num \div den
        r == num % den
    IN  IF 2 * r < den THEN q
        ELSE IF 2 * r > den THEN q + 1
        ELSE IF q % 2 = 0 THEN q ELSE q + 1

\* compute_overview_metrics averaging over the order lines.
overview_per_line(t) ==
    LET total_sales == SeriesSum(t.rows, "sales")
        total_profit == SeriesSum(t.rows, "profit")
        unique_orders == nunique(t.rows, "order_id")
    IN  [total_sales |-> total_sales,
         total_profit |-> total_profit,
         total_orders |-> unique_orders,
         total_customers |-> nunique(t.rows, "customer_id"),
         avg_order_value |->
             IF unique_orders > 0 THEN round2(total_sales, Len(t.rows)) ELSE 0,
         profit_margin |->
             IF total_sales > 0 THEN round2(total_profit * 100 * 100, total_sales) ELSE 0]

\* compute_overview_metrics(df); avg_order_value in cents, profit_margin
\* in hundredths of a percent.
compute_overview_metrics(t) ==
    LET total_sales == SeriesSum(t.rows, "sales")
        total_profit == SeriesSum(t.rows, "profit")
        unique_orders == nunique(t.rows, "order_id")
    IN  [total_sales |-> total_sales,
         total_profit |-> total_profit,
         total_orders |-> unique_orders,
         total_customers |-> nunique(t.rows, "customer_id"),
         avg_order_value |->
             IF unique_orders > 0 THEN round2(total_sales, unique_orders) ELSE 0,
         profit_margin |->
             IF total_sales > 0 THEN round2(total_profit * 100 * 100, total_sales) ELSE 0]

\* The values of the string columns in Python's string order, which is
\* the order groupby sorts its keys in.
KeyOrder(col) ==
    CASE col = "category" -> <<"Furniture", "Office Supplies", "Technology">>
      [] col = "region" -> <<"Central", "East", "West">>
      [] col = "segment" -> <<"Consumer", "Corporate", "Home Office">>
      [] col = "sub_category" ->
            <<"Binders", "Chairs", "Computers", "Paper", "Phones", "Tables">>
      [] col = "state" ->
            <<"California", "District of Columbia", "Illinois", "New York",
              "Puerto Rico", "Texas">>

\* groupby whose groups hold only the first row of each key.
groupby_head(rows, col) ==
    LET Present(k) == \E i \in 1..Len(rows) : rows[i][col] = k
        keys == SelectSeq(KeyOrder(col), Present)
    IN  [g \in 1..Len(keys) |->
            LET InGroup(r) == r[col] = keys[g]
            IN  [key |-> keys[g], rows |-> SubSeq(SelectSeq(rows, InGroup), 1, 1)]]

\* df.groupby(col): the keys present, ascending, each with its rows in
\* table order.
groupby(rows, col) ==
    LET Present(k) == \E i \in 1..Len(rows) : rows[i][col] = k
        keys == SelectSeq(KeyOrder(col), Present)
    IN  [g \in 1..Len(keys) |->
            LET InGroup(r) == r[col] = keys[g]
            IN  [key |-> keys[g], rows |-> SelectSeq(rows, InGroup)]]

\* compute_sales_by_category(df)
compute_sales_by_category(t) ==
    LET grouped == groupby(t.rows, "category")
    IN  [g \in 1..Len(grouped) |->
            [category |-> grouped[g].key,
             sales |-> SeriesSum(grouped[g].rows, "sales"),
             profit |-> SeriesSum(grouped[g].rows, "profit"),
             quantity |-> SeriesSum(grouped[g].rows, "quantity"),
             orders |-> nunique(grouped[g].rows, "order_id")]]

\* compute_sales_by_region whose "orders" counts the order lines.
compute_sales_by_region_lines(t) ==
    LET grouped == groupby(t.rows, "region")
    IN  [g \in 1..Len(grouped) |->
            [region |-> grouped[g].key,
             sales |-> SeriesSum(grouped[g].rows, "sales"),
             profit |-> SeriesSum(grouped[g].rows, "profit"),
             quantity |-> SeriesSum(grouped[g].rows, "quantity"),
             orders |-> count(grouped[g].rows, "order_id")]]

\* compute_sales_by_region(df)
compute_sales_by_region(t) ==
    LET grouped == groupby(t.rows, "region")
    IN  [g \in 1..Len(grouped) |->
            [region |-> grouped[g].key,
             sales |-> SeriesSum(grouped[g].rows, "sales"),
             profit |-> SeriesSum(grouped[g].rows, "profit"),
             quantity |-> SeriesSum(grouped[g].rows, "quantity"),
             orders |-> nunique(grouped[g].rows, "order_id")]]

\* compute_segment_analysis(df)
compute_segment_analysis(t) ==
    LET grouped == groupby(t.rows, "segment")
    IN  [g \in 1..Len(grouped) |->
            [segment |-> grouped[g].key,
             sales |-> SeriesSum(grouped[g].rows, "sales"),
             profit |-> SeriesSum(grouped[g].rows, "profit"),
             customers |-> nunique(grouped[g].rows, "customer_id"),
             orders |-> nunique(grouped[g].rows, "order_id")]]

\* Series.dt.to_period("M") of one date: the year and month, YYYYMM.
to_period_M(d) == IF d = NaT THEN NaT ELSE d \div 100

\* str(period): "YYYY-MM", kept as its two fields <<YYYY, MM>>.
period_str(m) == <<m \div 100, m % 100>>

\* The elements of S in descending order.
RECURSIVE SortedInts_descending(_)
SortedInts_descending(S) ==
    IF S = {} THEN <<>>
    ELSE LET m == CHOOSE x \in S : \A y \in S : x >= y
         IN  <<m>> \o SortedInts_descending(S \ {m})

\* groupby sorts its integer-like keys ascending.
RECURSIVE SortedInts(_)
SortedInts(S) ==
    IF S = {} THEN <<>>
    ELSE LET m == CHOOSE x \in S : \A y \in S : x <= y
         IN  <<m>> \o SortedInts(S \ {m})

\* The Month column written to the frame that was passed in.
month_frame_in_place(t) ==
    [frame |-> Table(t.columns \cup {"Month"}, t.rows),
     arg |-> Table(t.columns \cup {"Month"}, t.rows)]

\* df_copy = df.copy(); df_copy["Month"] = ...: the frame that gets the
\* Month column, and the frame that was passed in, after the assignment.
month_frame(t) ==
    [frame |-> Table(t.columns \cup {"Month"}, t.rows), arg |-> t]

\* compute_sales_trends(df): the Month column on a copy, groupby("Month")
\* (ascending, missing keys dropped).
compute_sales_trends(t) ==
    LET df_copy == month_frame(t).frame
        months == SortedInts({ to_period_M(df_copy.rows[i].order_date) :
                                 i \in 1..Len(df_copy.rows) } \ {NaT})
    IN  [g \in 1..Len(months) |->
            LET InMonth(r) == to_period_M(r.order_date) = months[g]
                rows == SelectSeq(df_copy.rows, InMonth)
            IN  [month |-> period_str(months[g]),
                 sales |-> SeriesSum(rows, "sales"),
                 profit |-> SeriesSum(rows, "profit"),
                 orders |-> nunique(rows, "order_id")]]

\* df.groupby(["Category", "Sub-Category"]): the pairs present, ascending
\* by category and then by sub-category.
groupby2(rows) ==
    LET cats == groupby(rows, "category")
        Subs(c) == groupby(cats[c].rows, "sub_category")
        RECURSIVE Flat(_)
        Flat(c) == IF c > Len(cats) THEN <<>>
                   ELSE [g \in 1..Len(Subs(c)) |->
                            [category |-> cats[c].key,
                             sub_category |-> Subs(c)[g].key,
                             rows |-> Subs(c)[g].rows]] \o Flat(c + 1)
    IN  Flat(1)

\* compute_profit_analysis with the zero guard of the overview (sales > 0).
profit_analysis_positive_guard(t) ==
    LET grouped == groupby2(t.rows)
    IN  [g \in 1..Len(grouped) |->
            LET sales == SeriesSum(grouped[g].rows, "sales")
                profit == SeriesSum(grouped[g].rows, "profit")
            IN  [category |-> grouped[g].category,
                 sub_category |-> grouped[g].sub_category,
                 sales |-> sales,
                 profit |-> profit,
                 quantity |-> SeriesSum(grouped[g].rows, "quantity"),
                 profit_margin |->
                     IF sales > 0 THEN round2(profit * 100 * 100, sales) ELSE 0]]

\* compute_profit_analysis(df)
compute_profit_analysis(t) ==
    LET grouped == groupby2(t.rows)
    IN  [g \in 1..Len(grouped) |->
            LET sales == SeriesSum(grouped[g].rows, "sales")
                profit == SeriesSum(grouped[g].rows, "profit")
            IN  [category |-> grouped[g].category,
                 sub_category |-> grouped[g].sub_category,
                 sales |-> sales,
                 profit |-> profit,
                 quantity |-> SeriesSum(grouped[g].rows, "quantity"),
                 profit_margin |->
                     IF sales # 0 THEN round2(profit * 100 * 100, sales) ELSE 0]]

\* The state_abbrev dictionary of compute_state_sales.
state_abbrev ==
    [n \in {"Alabama", "Alaska", "Arizona", "Arkansas", "California", "Colorado",
            "Connecticut", "Delaware", "Florida", "Georgia", "Hawaii", "Idaho",
            "Illinois", "Indiana", "Iowa", "Kansas", "Kentucky", "Louisiana",
            "Maine", "Maryland", "Massachusetts", "Michigan", "Minnesota",
            "Mississippi", "Missouri", "Montana", "Nebraska", "Nevada",
            "New Hampshire", "New Jersey", "New Mexico", "New York",
            "North Carolina", "North Dakota", "Ohio", "Oklahoma", "Oregon",
            "Pennsylvania", "Rhode Island", "South Carolina", "South Dakota",
            "Tennessee", "Texas", "Utah", "Vermont", "Virginia", "Washington",
            "West Virginia", "Wisconsin", "Wyoming", "District of Columbia"} |->
        CASE n = "Alabama" -> "AL" [] n = "Alaska" -> "AK" [] n = "Arizona" -> "AZ"
          [] n = "Arkansas" -> "AR" [] n = "California" -> "CA"
          [] n = "Colorado" -> "CO" [] n = "Connecticut" -> "CT"
          [] n = "Delaware" -> "DE" [] n = "Florida" -> "FL" [] n = "Georgia" -> "GA"
          [] n = "Hawaii" -> "HI" [] n = "Idaho" -> "ID" [] n = "Illinois" -> "IL"
          [] n = "Indiana" -> "IN" [] n = "Iowa" -> "IA" [] n = "Kansas" -> "KS"
          [] n = "Kentucky" -> "KY" [] n = "Louisiana" -> "LA" [] n = "Maine" -> "ME"
          [] n = "Maryland" -> "MD" [] n = "Massachusetts" -> "MA"
          [] n = "Michigan" -> "MI" [] n = "Minnesota" -> "MN"
          [] n = "Mississippi" -> "MS" [] n = "Missouri" -> "MO"
          [] n = "Montana" -> "MT" [] n = "Nebraska" -> "NE" [] n = "Nevada" -> "NV"
          [] n = "New Hampshire" -> "NH" [] n = "New Jersey" -> "NJ"
          [] n = "New Mexico" -> "NM" [] n = "New York" -> "NY"
          [] n = "North Carolina" -> "NC" [] n = "North Dakota" -> "ND"
          [] n = "Ohio" -> "OH" [] n = "Oklahoma" -> "OK" [] n = "Oregon" -> "OR"
          [] n = "Pennsylvania" -> "PA" [] n = "Rhode Island" -> "RI"
          [] n = "South Carolina" -> "SC" [] n = "South Dakota" -> "SD"
          [] n = "Tennessee" -> "TN" [] n = "Texas" -> "TX" [] n = "Utah" -> "UT"
          [] n = "Vermont" -> "VT" [] n = "Virginia" -> "VA"
          [] n = "Washington" -> "WA" [] n = "West Virginia" -> "WV"
          [] n = "Wisconsin" -> "WI" [] n = "Wyoming" -> "WY"
          [] n = "District of Columbia" -> "DC"]

\* compute_state_sales that appends a record for every state, with the
\* empty code for a state the dictionary does not hold.
compute_state_sales_all(t) ==
    IF "State" \notin t.columns THEN [err |-> "KeyError", out |-> <<>>]
    ELSE LET grouped == groupby(t.rows, "state")
         IN  [err |-> "",
              out |-> [g \in 1..Len(grouped) |->
                          [state |-> grouped[g].key,
                           state_code |->
                               IF grouped[g].key \in DOMAIN state_abbrev
                               THEN state_abbrev[grouped[g].key] ELSE "",
                           sales |-> SeriesSum(grouped[g].rows, "sales"),
                           profit |-> SeriesSum(grouped[g].rows, "profit"),
                           orders |-> nunique(grouped[g].rows, "order_id")]]]

\* compute_state_sales(df): groupby("State") raises KeyError on a table
\* without that column; a state without a code is left out.
compute_state_sales(t) ==
    IF "State" \notin t.columns THEN [err |-> "KeyError", out |-> <<>>]
    ELSE LET grouped == groupby(t.rows, "state")
             HasCode(g) == g.key \in DOMAIN state_abbrev
             kept == SelectSeq(grouped, HasCode)
         IN  [err |-> "",
              out |-> [g \in 1..Len(kept) |->
                          [state |-> kept[g].key,
                           state_code |-> state_abbrev[kept[g].key],
                           sales |-> SeriesSum(kept[g].rows, "sales"),
                           profit |-> SeriesSum(kept[g].rows, "profit"),
                           orders |-> nunique(kept[g].rows, "order_id")]]]

\* Series.unique().tolist(): the distinct values in order of appearance.
RECURSIVE unique(_, _)
unique(rows, col) ==
    IF rows = <<>> THEN <<>>
    ELSE LET rest == unique(SubSeq(rows, 1, Len(rows) - 1), col)
             v == rows[Len(rows)][col]
         IN  IF \E j \in 1..Len(rest) : rest[j] = v THEN rest ELSE Append(rest, v)

\* The distinct values left in their order of appearance.
unique_unsorted(rows, col) == unique(rows, col)

\* sorted(Series.unique().tolist())
sorted_unique(rows, col) ==
    LET Present(k) == \E j \in 1..Len(unique(rows, col)) : unique(rows, col)[j] = k
    IN  SelectSeq(KeyOrder(col), Present)

\* Series.min() / Series.max() of the order dates: NaT of an empty column.
date_min(rows) ==
    IF rows = <<>> THEN NaT
    ELSE CHOOSE d \in { rows[i].order_date : i \in 1..Len(rows) } :
             \A i \in 1..Len(rows) : d <= rows[i].order_date
date_max(rows) ==
    IF rows = <<>> THEN NaT
    ELSE CHOOSE d \in { rows[i].order_date : i \in 1..Len(rows) } :
             \A i \in 1..Len(rows) : d >= rows[i].order_date

\* Timestamp.strftime("%Y-%m-%d"): "YYYY-MM-DD", kept as its three fields.
strftime(d) == <<d \div 10000, (d \div 100) % 100, d % 100>>

NoOptions == [regions |-> <<>>, segments |-> <<>>, categories |-> <<>>,
              date_range |-> [min |-> <<0, 0, 0>>, max |-> <<0, 0, 0>>]]

\* compute_filter_options(df); NaT.strftime raises ValueError.
compute_filter_options(t) ==
    IF date_min(t.rows) = NaT \/ date_max(t.rows) = NaT
    THEN [err |-> "ValueError", out |-> NoOptions]
    ELSE [err |-> "",
          out |-> [regions |-> sorted_unique(t.rows, "region"),
                   segments |-> sorted_unique(t.rows, "segment"),
                   categories |-> sorted_unique(t.rows, "category"),
                   date_range |-> [min |-> strftime(date_min(t.rows)),
                                   max |-> strftime(date_max(t.rows))]]]

----------------------------------------------------------------------------
(* DataService: the facade's own filter and aggregation methods            *)

\* DataService._apply_filters(df, start_date, end_date, regions, segments,
\* categories): the five optional steps on a copy of df.
_apply_filters(t, f) ==
    LET start == IF TruthyStr(f.start_date) THEN to_datetime(f.start_date[1]) ELSE NaT
        end == IF TruthyStr(f.end_date) THEN to_datetime(f.end_date[1]) ELSE NaT
        ByStart(r) == TruthyStr(f.start_date) => date_ge(r.order_date, start)
        ByEnd(r) == TruthyStr(f.end_date) => date_le(r.order_date, end)
        ByRegion(r) ==
            (TruthyList(f.regions) /\ Len(f.regions[1]) > 0)
                => isin(r.region, f.regions[1])
        BySegment(r) ==
            (TruthyList(f.segments) /\ Len(f.segments[1]) > 0)
                => isin(r.segment, f.segments[1])
        ByCategory(r) ==
            (TruthyList(f.categories) /\ Len(f.categories[1]) > 0)
                => isin(r.category, f.categories[1])
    IN  IF start = BadDate \/ end = BadDate
        THEN Raised("ValueError", "date")
        ELSE Returned(Table(t.columns,
                 SelectSeq(SelectSeq(SelectSeq(SelectSeq(SelectSeq(
                     t.rows, ByStart), ByEnd), ByRegion), BySegment), ByCategory)))

\* What a method call gives: the exception raised, or the value returned.
MethodRaised(kind, msg) == [err |-> kind, msg |-> msg, out |-> <<>>]
MethodReturned(out) == [err |-> "", msg |-> "", out |-> out]

\* DataService.get_overview_metrics
get_overview_metrics(t, f) ==
    LET df_ == _apply_filters(t, f)
        total_sales == SeriesSum(df_.table.rows, "sales")
        total_profit == SeriesSum(df_.table.rows, "profit")
        unique_orders == nunique(df_.table.rows, "order_id")
    IN  IF df_.err # "" THEN MethodRaised(df_.err, df_.msg)
        ELSE MethodReturned(
                 [total_sales |-> total_sales,
                  total_profit |-> total_profit,
                  total_orders |-> unique_orders,
                  total_customers |-> nunique(df_.table.rows, "customer_id"),
                  avg_order_value |->
                      IF unique_orders > 0
                      THEN round2(total_sales, unique_orders) ELSE 0,
                  profit_margin |->
                      IF total_sales > 0
                      THEN round2(total_profit * 100 * 100, total_sales) ELSE 0])

\* DataService.get_sales_by_category
get_sales_by_category(t, f) ==
    LET df_ == _apply_filters(t, f)
        grouped == groupby(df_.table.rows, "category")
    IN  IF df_.err # "" THEN MethodRaised(df_.err, df_.msg)
        ELSE MethodReturned(
                 [g \in 1..Len(grouped) |->
                     [category |-> grouped[g].key,
                      sales |-> SeriesSum(grouped[g].rows, "sales"),
                      profit |-> SeriesSum(grouped[g].rows, "profit"),
                      quantity |-> SeriesSum(grouped[g].rows, "quantity"),
                      orders |-> nunique(grouped[g].rows, "order_id")]])

\* DataService.get_sales_by_region
get_sales_by_region(t, f) ==
    LET df_ == _apply_filters(t, f)
        grouped == groupby(df_.table.rows, "region")
    IN  IF df_.err # "" THEN MethodRaised(df_.err, df_.msg)
        ELSE MethodReturned(
                 [g \in 1..Len(grouped) |->
                     [region |-> grouped[g].key,
                      sales |-> SeriesSum(grouped[g].rows, "sales"),
                      profit |-> SeriesSum(grouped[g].rows, "profit"),
                      quantity |-> SeriesSum(grouped[g].rows, "quantity"),
                      orders |-> nunique(grouped[g].rows, "order_id")]])

\* DataService.get_sales_trends: the Month column on df.copy(), then
\* groupby("Month").
get_sales_trends(t, f) ==
    LET df_ == _apply_filters(t, f)
        rows == df_.table.rows
        months == SortedInts({ to_period_M(rows[i].order_date) :
                                 i \in 1..Len(rows) } \ {NaT})
    IN  IF df_.err # "" THEN MethodRaised(df_.err, df_.msg)
        ELSE MethodReturned(
                 [g \in 1..Len(months) |->
                     LET InMonth(r) == to_period_M(r.order_date) = months[g]
                         group == SelectSeq(rows, InMonth)
                     IN  [month |-> period_str(months[g]),
                          sales |-> SeriesSum(group, "sales"),
                          profit |-> SeriesSum(group, "profit"),
                          orders |-> nunique(group, "order_id")]])

\* get_profit_analysis whose margin is guarded as in the overview
\* (sales > 0).
get_profit_analysis_positive_guard(t, f) ==
    LET df_ == _apply_filters(t, f)
        required_cols == {"Category", "Sub-Category", "Sales", "Profit", "Quantity"}
        grouped == groupby2(df_.table.rows)
    IN  IF df_.err # "" THEN MethodRaised(df_.err, df_.msg)
        ELSE IF required_cols \ df_.table.columns # {}
        THEN MethodRaised("ValueError", "column")
        ELSE MethodReturned(
                 [g \in 1..Len(grouped) |->
                     LET sales == SeriesSum(grouped[g].rows, "sales")
                         profit == SeriesSum(grouped[g].rows, "profit")
                     IN  [category |-> grouped[g].category,
                          sub_category |-> grouped[g].sub_category,
                          sales |-> sales,
                          profit |-> profit,
                          quantity |-> SeriesSum(grouped[g].rows, "quantity"),
                          profit_margin |->
                              IF sales > 0
                              THEN round2(profit * 100 * 100, sales) ELSE 0]])

\* DataService.get_profit_analysis: ValueError when one of its five columns
\* is not in the frame; the margin is 0 where the sales are 0.
get_profit_analysis(t, f) ==
    LET df_ == _apply_filters(t, f)
        required_cols == {"Category", "Sub-Category", "Sales", "Profit", "Quantity"}
        grouped == groupby2(df_.table.rows)
    IN  IF df_.err # "" THEN MethodRaised(df_.err, df_.msg)
        ELSE IF required_cols \ df_.table.columns # {}
        THEN MethodRaised("ValueError", "column")
        ELSE MethodReturned(
                 [g \in 1..Len(grouped) |->
                     LET sales == SeriesSum(grouped[g].rows, "sales")
                         profit == SeriesSum(grouped[g].rows, "profit")
                     IN  [category |-> grouped[g].category,
                          sub_category |-> grouped[g].sub_category,
                          sales |-> sales,
                          profit |-> profit,
                          quantity |-> SeriesSum(grouped[g].rows, "quantity"),
                          profit_margin |->
                              IF sales # 0
                              THEN round2(profit * 100 * 100, sales) ELSE 0]])

\* DataService.get_segment_analysis
get_segment_analysis(t, f) ==
    LET df_ == _apply_filters(t, f)
        grouped == groupby(df_.table.rows, "segment")
    IN  IF df_.err # "" THEN MethodRaised(df_.err, df_.msg)
        ELSE MethodReturned(
                 [g \in 1..Len(grouped) |->
                     [segment |-> grouped[g].key,
                      sales |-> SeriesSum(grouped[g].rows, "sales"),
                      profit |-> SeriesSum(grouped[g].rows, "profit"),
                      customers |-> nunique(grouped[g].rows, "customer_id"),
                      orders |-> nunique(grouped[g].rows, "order_id")]])

\* DataService.get_filter_options(): the whole table, no filter;
\* NaT.strftime raises ValueError.
get_filter_options(t) ==
    IF date_min(t.rows) = NaT \/ date_max(t.rows) = NaT
    THEN [err |-> "ValueError", msg |-> "NaT", out |-> NoOptions]
    ELSE [err |-> "", msg |-> "",
          out |-> [regions |-> sorted_unique(t.rows, "region"),
                   segments |-> sorted_unique(t.rows, "segment"),
                   categories |-> sorted_unique(t.rows, "category"),
                   date_range |-> [min |-> strftime(date_min(t.rows)),
                                   max |-> strftime(date_max(t.rows))]]]

----------------------------------------------------------------------------
(* The request boundary: the handlers of routers/sales.py with            *)
(* handle_service_error, the application's global_exception_handler       *)
(* (main.py), and the handlers of routes/sales.py.  A response body is     *)
(* kept as [error, message, code, detail], "" for a key the body does not  *)
(* have or whose value is None.                                            *)

\* The public methods the class DataService defines.
DataService ==
    {"get_overview_metrics", "get_sales_by_category", "get_sales_by_region",
     "get_sales_trends", "get_profit_analysis", "get_segment_analysis",
     "get_filter_options"}

\* The public methods the class ChartService defines.
ChartService ==
    {"create_category_chart", "create_region_chart", "create_trends_chart",
     "create_profit_chart", "create_segment_chart"}

\* The handlers of routers/sales.py: the method of data_service and the
\* method of chart_service each one calls ("" where no chart is built).
sales_router ==
    [e \in {"filter-options", "overview", "by-category", "by-region", "trends",
            "profit-analysis", "segment-analysis", "geo-sales"} |->
        CASE e = "filter-options" -> [data |-> "get_filter_options", chart |-> ""]
          [] e = "overview" -> [data |-> "get_overview_metrics", chart |-> ""]
          [] e = "by-category" ->
                [data |-> "get_sales_by_category", chart |-> "create_category_chart"]
          [] e = "by-region" ->
                [data |-> "get_sales_by_region", chart |-> "create_region_chart"]
          [] e = "trends" ->
                [data |-> "get_sales_trends", chart |-> "create_trends_chart"]
          [] e = "profit-analysis" ->
                [data |-> "get_profit_analysis", chart |-> "create_profit_chart"]
          [] e = "segment-analysis" ->
                [data |-> "get_segment_analysis", chart |-> "create_segment_chart"]
          [] e = "geo-sales" ->
                [data |-> "get_state_sales", chart |-> "create_choropleth_map"]]

\* The handlers of routes/sales.py: the same, without geo-sales.
routes_router ==
    [e \in DOMAIN sales_router \ {"geo-sales"} |-> sales_router[e]]

\* data_service.<name>(start_date=..., ...) on the service's table.
CallMethod(name, t, f) ==
    CASE name = "get_filter_options" -> get_filter_options(t)
      [] name = "get_overview_metrics" -> get_overview_metrics(t, f)
      [] name = "get_sales_by_category" -> get_sales_by_category(t, f)
      [] name = "get_sales_by_region" -> get_sales_by_region(t, f)
      [] name = "get_sales_trends" -> get_sales_trends(t, f)
      [] name = "get_profit_analysis" -> get_profit_analysis(t, f)
      [] name = "get_segment_analysis" -> get_segment_analysis(t, f)

\* Settings.api_version
api_version == "1.0.0"

Body(error, message, code, detail) ==
    [error |-> error, message |-> message, code |-> code, detail |-> detail]
NoBody == Body("", "", "", "")
HttpResponse(status, body) == [status |-> status, body |-> body]

\* handle_service_error with a ValueError treated as any other exception.
handle_service_error_no_400(class, text) ==
    IF class = "DataLoadError"
    THEN HttpResponse(503, Body("Data Source Unavailable", text, "DATA_LOAD_ERROR", ""))
    ELSE IF class = "DataValidationError"
    THEN HttpResponse(500, Body("Data Validation Failed", text, "DATA_VALIDATION_ERROR", ""))
    ELSE HttpResponse(500, Body("Internal Server Error",
                                "An unexpected error occurred. Please try again later.",
                                "INTERNAL_ERROR", ""))

\* handle_service_error(e, operation): the isinstance chain over the class
\* of e; text is str(e).
handle_service_error(class, text) ==
    IF class = "DataLoadError"
    THEN HttpResponse(503, Body("Data Source Unavailable", text, "DATA_LOAD_ERROR", ""))
    ELSE IF class = "DataValidationError"
    THEN HttpResponse(500, Body("Data Validation Failed", text, "DATA_VALIDATION_ERROR", ""))
    ELSE IF class = "ValueError"
    THEN HttpResponse(400, Body("Invalid Request", text, "INVALID_REQUEST", ""))
    ELSE HttpResponse(500, Body("Internal Server Error",
                                "An unexpected error occurred. Please try again later.",
                                "INTERNAL_ERROR", ""))

\* global_exception_handler(request, exc)
global_exception_handler(class, text) ==
    HttpResponse(500, Body("Internal Server Error",
                           "An unexpected error occurred. Please try again later.",
                           "", IF api_version = "dev" THEN text ELSE ""))

\* routes/sales.py: except Exception as e:
\*     raise HTTPException(status_code=500, detail=str(e))
routes_except(class, text) == HttpResponse(500, Body("", "", "", text))

\* The filter specifications of the requests.
RequestFilters ==
    { FilterSpec(<<>>, <<>>, <<>>, <<>>, <<>>),
      FilterSpec(<<"2023-02-20">>, <<>>, << <<"East">> >>, <<>>, <<>>),
      FilterSpec(<<"not-a-date">>, <<>>, <<>>, <<>>, <<>>),
      FilterSpec(<<"2023-01-15">>, <<"2023-13-45">>, <<>>, <<>>, <<>>) }

\* What the lazy load of a request may meet.
RequestSources ==
    { Payload("connection", FALSE, FALSE, {}, <<>>),
      Payload("timeout", FALSE, FALSE, {}, <<>>),
      Payload("http", FALSE, FALSE, {}, <<>>),
      Payload("ok", FALSE, FALSE, {}, <<>>),
      Payload("ok", TRUE, TRUE, FullColumns \ {"Profit"}, SampleRows),
      Payload("ok", TRUE, TRUE, FullColumns, SampleRows) }

\* The exceptions a call inside a handler's try block may raise, whatever
\* the service behind it.
ExceptionClasses ==
    {"DataLoadError", "DataValidationError", "ValueError", "RuntimeError", "KeyError"}
ExceptionTexts == {"boom", "secret"}

NoResponse == HttpResponse(0, NoBody)
NoRequest ==
    [pc |-> "idle", app |-> "", endpoint |-> "", f |-> FilterSpec(<<>>, <<>>, <<>>, <<>>, <<>>),
     stage |-> "", class |-> "", text |-> "", cause |-> "", log |-> "",
     response |-> NoResponse, data |-> <<>>,
     prev |-> [app |-> "", response |-> NoResponse]]

\* The error taxonomy's "anything else": an exception of none of the three
\* named kinds.
Unexpected(class) == class \notin {"DataLoadError", "DataValidationError", "ValueError"}

\* A request reaches a handler of routers/sales.py (the application's
\* router) or of routes/sales.py; filter-options takes no filter.
Receive ==
    /\ http.pc = "idle"
    /\ \E app \in {"routers", "routes"} :
       \E e \in DOMAIN (IF app = "routers" THEN sales_router ELSE routes_router) :
       \E f \in (IF e = "filter-options" THEN {NoRequest.f} ELSE RequestFilters) :
          http' = [NoRequest EXCEPT !.pc = "try", !.app = app, !.endpoint = e,
                                    !.f = f, !.prev = http.prev]
    /\ UNCHANGED <<df, last_refresh, svc_df, svc_last_refresh, clock, call, filtered,
                   resp, threads, session>>

\* The try block of a handler: data = data_service.<method>(...), which
\* reads self.df (the lazy load) and then filters and aggregates; then
\* chart = chart_service.<method>(data) where the handler builds a chart.
\* An attribute the class does not define raises AttributeError before
\* anything else runs.
Try ==
    /\ http.pc = "try"
    /\ LET h == IF http.app = "routers" THEN sales_router[http.endpoint]
                ELSE routes_router[http.endpoint]
           Raises(stage, class, text, cause) ==
               http' = [http EXCEPT !.pc = "except", !.stage = stage,
                                    !.class = class, !.text = text, !.cause = cause]
       IN  IF h.data \notin DataService
           THEN /\ Raises("attribute", "AttributeError", h.data, "")
                /\ UNCHANGED <<df, last_refresh, svc_df, svc_last_refresh, clock,
                               call, filtered, resp, threads, session>>
           ELSE \E p \in RequestSources :
                  /\ service_df(p)
                  /\ IF call'.err # ""
                     THEN Raises("load", call'.err, call'.msg, call'.msg)
                     ELSE LET r == CallMethod(h.data, call'.table, http.f)
                          IN  IF r.err # ""
                              THEN Raises("method", r.err, r.msg, "")
                              ELSE IF h.chart # "" /\ h.chart \notin ChartService
                              THEN Raises("attribute", "AttributeError", h.chart, "")
                              ELSE http' = [http EXCEPT
                                               !.pc = "done",
                                               !.response = HttpResponse(200, NoBody),
                                               !.data = r.out]

\* A call inside the try block raises some exception: the chart builder,
\* or a service put in place of the DataService.
RaiseInTry ==
    /\ http.pc = "try"
    /\ \E class \in ExceptionClasses, text \in ExceptionTexts :
          http' = [http EXCEPT !.pc = "except", !.stage = "raised",
                               !.class = class, !.text = text]
    /\ UNCHANGED <<df, last_refresh, svc_df, svc_last_refresh, clock, call, filtered,
                   resp, threads, session>>

\* except Exception as e: routers/sales.py logs the exception and raises
\* handle_service_error(e, ...); routes/sales.py raises a 500 whose detail
\* is str(e).
HandlerExcept ==
    /\ http.pc = "except"
    /\ http.app \in {"routers", "routes"}
    /\ http' = IF http.app = "routers"
               THEN [http EXCEPT !.pc = "done", !.log = http.text,
                        !.response = handle_service_error(http.class, http.text)]
               ELSE [http EXCEPT !.pc = "done",
                        !.response = routes_except(http.class, http.text)]
    /\ UNCHANGED <<df, last_refresh, svc_df, svc_last_refresh, clock, call, filtered,
                   resp, threads, session>>

\* An exception that no handler catches reaches the application:
\* global_exception_handler logs it and answers.
Unhandled ==
    /\ http.pc = "idle"
    /\ \E class \in ExceptionClasses, text \in ExceptionTexts :
          http' = [NoRequest EXCEPT !.pc = "done", !.app = "main", !.stage = "raised",
                      !.class = class, !.text = text, !.log = text,
                      !.response = global_exception_handler(class, text),
                      !.prev = http.prev]
    /\ UNCHANGED <<df, last_refresh, svc_df, svc_last_refresh, clock, call, filtered,
                   resp, threads, session>>

\* The response is sent.
Respond ==
    /\ http.pc = "done"
    /\ http' = [NoRequest EXCEPT !.prev =
                   IF http.class # "" /\ (http.app = "main" \/ Unexpected(http.class))
                   THEN [app |-> http.app, response |-> http.response]
                   ELSE http.prev]
    /\ UNCHANGED <<df, last_refresh, svc_df, svc_last_refresh, clock, call, filtered,
                   resp, threads, session>>

RequestNext == Receive \/ Try \/ RaiseInTry \/ HandlerExcept \/ Unhandled \/ Respond

----------------------------------------------------------------------------
(* The cache life cycle *)

NoFiltered == [start_date |-> <<>>, end_date |-> <<>>, regions |-> <<>>,
               segments |-> <<>>, categories |-> <<>>,
               src |-> NoTable, err |-> "none", table |-> NoTable, shared |-> FALSE]
NoResp == [view |-> "none", src |-> NoTable, err |-> "none", calls |-> 0]

Threads == 1..NumThreads
NoOverview == [total_sales |-> 0, total_profit |-> 0, total_orders |-> 0,
               total_customers |-> 0, avg_order_value |-> 0, profit_margin |-> 0]
IdleThread == [pc |-> "idle", force |-> FALSE, src |-> NoPayload, tbl |-> NoTable,
               got |-> NoTable, err |-> "", missing |-> {}, out |-> NoOverview]

\* DataRepository.__init__ and DataService.__init__: nothing is loaded.
Init ==
    /\ df = NoTable
    /\ last_refresh = 0
    /\ svc_df = NoTable
    /\ svc_last_refresh = 0
    /\ clock = 0
    /\ call = NoCall
    /\ filtered = NoFiltered
    /\ resp = NoResp
    /\ threads = [t \in Threads |-> IdleThread]
    /\ session = NoSession
    /\ http = NoRequest

GetDataframe == \E force \in BOOLEAN, p \in Sources : get_dataframe(force, p)
ServiceDf == (\E p \in Sources : service_df(p)) /\ UNCHANGED http

Next == GetDataframe \/ ServiceDf

Spec == Init /\ [][Next]_vars

\* The fetch alone; the thread that fetches keeps running, and a backoff
\* sleep ends.
FetchSpec == Init /\ [][FetchNext]_vars /\ WF_vars(FetchNext)

\* The requests at the API boundary, one after the other.
RequestSpec == Init /\ [][RequestNext]_vars

----------------------------------------------------------------------------
(* Properties of the cache life cycle, checked under Spec.                 *)

IngestionErrors == {"DataLoadError", "DataValidationError", "RuntimeError"}

\* C1: a get_dataframe call (forced or not) or a DataService.df access
\* whose load fails at fetch, deserialization or schema validation raises
\* the ingestion error and leaves the cached table and last_refresh of
\* both caches exactly as they were before the call.
C1_FailedLoadKeepsCache ==
    [][ call'.err # "" =>
            /\ call'.loaded
            /\ call'.err \in IngestionErrors
            /\ call'.obj = "repo" => call'.err \in {"DataLoadError", "DataValidationError"}
            /\ df' = df
            /\ last_refresh' = last_refresh
            /\ svc_df' = svc_df
            /\ svc_last_refresh' = svc_last_refresh ]_vars

\* A forced refresh failed at schema validation while an earlier table
\* and its refresh time were cached.
C1_Witness ==
    /\ call.obj = "repo"
    /\ call.force
    /\ call.err = "DataValidationError"
    /\ ~df.none
    /\ last_refresh > 0
    /\ last_refresh < clock

\* C2: construction ingests nothing, and an access without forced refresh
\* runs the ingestion iff no table is cached: once a table is cached,
\* every such access returns that table and changes nothing.
C2_LazyLoadAndReuse ==
    /\ [][ /\ (call'.obj = "repo" /\ ~call'.force) =>
                /\ call'.loaded <=> df.none
                /\ ~df.none => call'.table = df /\ df' = df /\ last_refresh' = last_refresh
           /\ call'.obj = "svc" =>
                /\ call'.loaded <=> svc_df.none
                /\ ~svc_df.none =>
                      /\ call'.table = svc_df
                      /\ svc_df' = svc_df
                      /\ svc_last_refresh' = svc_last_refresh ]_vars
    /\ [](call.obj = "none" =>
              df.none /\ svc_df.none /\ last_refresh = 0 /\ svc_last_refresh = 0)

\* A DataService.df access that found a table cached and returned it
\* without loading, some time after the load.
C2_Witness ==
    /\ call.obj = "svc"
    /\ ~call.loaded
    /\ ~svc_df.none
    /\ call.table = svc_df
    /\ svc_last_refresh > 0
    /\ svc_last_refresh < clock

\* The rows a load publishes for the raw rows of a payload: the rows
\* whose order date parsed, in their order, a missing number being 0.
PublishedRows(raw) ==
    LET Parsed(r) == r.order_date \notin {BadDate, NaT}
        Zero(v) == IF v \in {BadNum, NaN} THEN 0 ELSE v
        kept == SelectSeq(raw, Parsed)
    IN  [i \in 1..Len(kept) |->
            [kept[i] EXCEPT !.ship_date = IF @ = BadDate THEN NaT ELSE @,
                            !.sales = Zero(@), !.profit = Zero(@),
                            !.quantity = Zero(@), !.discount = Zero(@)]]

\* C20: after every successful load, of DataRepository or of DataService,
\* the published table holds exactly the payload's rows whose order date
\* parsed, in their original order, every row of it has an order date, and
\* no sales, profit, quantity or discount value of it is missing (a value
\* that was missing is 0).
C20_LoadPostcondition ==
    (call.loaded /\ call.err = "") =>
        /\ call.obj = "repo" => df = call.table
        /\ call.obj = "svc" => svc_df = call.table
        /\ call.table.rows = PublishedRows(call.src.rows)
        /\ \A i \in 1..Len(call.table.rows) :
              /\ call.table.rows[i].order_date \notin {NaT, BadDate}
              /\ \A col \in {"sales", "profit", "quantity", "discount"} :
                    call.table.rows[i][col] \notin {NaN, BadNum}

\* C26: an entry that does not parse as a date or as a number never
\* makes a load fail: a load whose payload was fetched, deserialized and
\* holds the required columns succeeds and publishes a table, in which the
\* entry is a missing value.
C26_UnparseableEntriesCoerced ==
    (/\ call.loaded
     /\ call.src.fetch = "ok"
     /\ (call.src.feather \/ call.src.stream)
     /\ REQUIRED_COLUMNS \subseteq call.src.columns)
        => /\ call.err = ""
           /\ call.table = (IF call.obj = "repo" THEN df ELSE svc_df)
           /\ \A i \in 1..Len(call.table.rows) :
                 /\ call.table.rows[i].order_date # BadDate
                 /\ call.table.rows[i].ship_date # BadDate
                 /\ \A col \in {"sales", "profit", "quantity", "discount"} :
                       call.table.rows[i][col] # BadNum

\* C27: deserialization falls back: a load whose payload was fetched ends
\* in the parse error exactly when neither reader accepts the bytes; when
\* only the stream reader accepts them, read from their start, the load
\* goes on with the stream reader's table and ends as it would had the
\* primary reader accepted the same bytes.
C27_DeserializationFallback ==
    (call.loaded /\ call.src.fetch = "ok") =>
        LET ParseError == call.err \in {"DataLoadError", "RuntimeError"}
                              /\ call.msg = "parse"
            q == [call.src EXCEPT !.feather = TRUE]
            r == IF call.obj = "repo" THEN _load(q) ELSE _load_data(q)
        IN  /\ ParseError <=> (~call.src.feather /\ ~call.src.stream)
            /\ (~call.src.feather /\ call.src.stream) =>
                  /\ call.err = r.err
                  /\ call.table = r.table

\* A repository load of bytes that only the stream reader accepts
\* published the two rows they hold.
C27_Witness ==
    /\ call.obj = "repo"
    /\ call.loaded
    /\ ~call.src.feather
    /\ call.src.stream
    /\ call.err = ""
    /\ call.table.rows = SubSeq(SampleRows, 1, 2)
    /\ df = call.table

----------------------------------------------------------------------------
(* The engine on a cached table *)

OptDates == {<<>>, <<"">>, <<"2023-02-20">>, <<"not-a-date">>}
OptEndDates == {<<>>, <<"2023-02-20">>, <<"2023-13-45">>}
OptRegions == {<<>>, << <<>> >>, << <<"East">> >>, << <<"West", "East">> >>}
OptSegments == {<<>>, << <<"Consumer">> >>}
OptCategories == {<<>>, << <<"Technology", "Furniture">> >>}

FilterSpecs ==
    { FilterSpec(sd, ed, rg, sg, cg) :
        sd \in OptDates, ed \in OptEndDates, rg \in OptRegions,
        sg \in OptSegments, cg \in OptCategories }

\* The payloads the engine's tables are loaded from.
EnginePayloads ==
    GoodPayloads \cup {Payload("ok", TRUE, TRUE, FullColumns \ {"State"}, SampleRows)}

\* The states right after the first get_dataframe() has loaded a table.
EngineInit ==
    /\ \E p \in EnginePayloads :
          /\ df = _load(p).table
          /\ call = Access("repo", FALSE, TRUE, p, Returned(df))
    /\ last_refresh = 1
    /\ svc_df = NoTable
    /\ svc_last_refresh = 0
    /\ clock = 1
    /\ filtered = NoFiltered
    /\ resp = NoResp
    /\ threads = [t \in Threads |-> IdleThread]
    /\ session = NoSession
    /\ http = NoRequest

\* A request filters the cached table: apply_filters(df, ...).  The frame
\* it returns is a copy (filtered = df.copy()), never the cached object.
ApplyFilters ==
    /\ ~df.none
    /\ filtered.err = "none"
    /\ \E f \in FilterSpecs :
          LET r == apply_filters(df, f)
          IN  filtered' = [start_date |-> f.start_date, end_date |-> f.end_date,
                           regions |-> f.regions, segments |-> f.segments,
                           categories |-> f.categories,
                           src |-> df, err |-> r.err, table |-> r.table,
                           shared |-> FALSE]
    /\ UNCHANGED <<df, last_refresh, svc_df, svc_last_refresh, clock, call, resp, threads,
                   session, http>>

Response(view, r, n) ==
    [view |-> view, src |-> filtered.table, err |-> r.err, out |-> r.out, calls |-> n]
Result(out) == [err |-> "", out |-> out]

\* The view's function applied to a frame.
Aggregate(view, t) ==
    CASE view = "overview" -> Result(compute_overview_metrics(t))
      [] view = "by_category" -> Result(compute_sales_by_category(t))
      [] view = "by_region" -> Result(compute_sales_by_region(t))
      [] view = "trends" -> Result(compute_sales_trends(t))
      [] view = "profit" -> Result(compute_profit_analysis(t))
      [] view = "segment" -> Result(compute_segment_analysis(t))
      [] view = "state" -> compute_state_sales(t)

\* The frame that was passed to the view's function, after the call: only
\* compute_sales_trends assigns to a frame.
Borrowed(view, t) == IF view = "trends" THEN month_frame(t).arg ELSE t

\* The call's effect on the frames: on the request's frame and, were that
\* frame the cached object, on the cache.
Call(view) ==
    LET arg == Borrowed(view, filtered.table)
    IN  /\ filtered' = [filtered EXCEPT !.table = arg]
        /\ df' = IF filtered.shared THEN arg ELSE df

\* The request computes its view of the filtered table.
Compute(view) ==
    /\ filtered.err = ""
    /\ resp.view = "none"
    /\ resp' = Response(view, Aggregate(view, filtered.table), 1)
    /\ Call(view)
    /\ UNCHANGED <<last_refresh, svc_df, svc_last_refresh, clock, call, threads,
                   session, http>>

Overview == Compute("overview")
ByCategory == Compute("by_category")
ByRegion == Compute("by_region")
Trends == Compute("trends")
ProfitAnalysis == Compute("profit")
SegmentAnalysis == Compute("segment")
StateSales == Compute("state")

\* The same view is computed once more from the same filtered frame.
Repeat ==
    /\ filtered.err = ""
    /\ resp.view \notin {"none", "options"}
    /\ resp.calls = 1
    /\ resp' = Response(resp.view, Aggregate(resp.view, filtered.table), 2)
    /\ Call(resp.view)
    /\ UNCHANGED <<last_refresh, svc_df, svc_last_refresh, clock, call, threads,
                   session, http>>

\* A filter-options request, whatever another request is doing: it reads
\* the cached table.
FilterOptions ==
    /\ ~df.none
    /\ resp.view = "none"
    /\ LET r == compute_filter_options(df)
       IN  resp' = [view |-> "options", src |-> df, err |-> r.err, out |-> r.out,
                    calls |-> 1]
    /\ UNCHANGED <<df, last_refresh, svc_df, svc_last_refresh, clock, call, filtered,
                   threads, session, http>>

\* A request ends (its result returned, or its error raised): its locals
\* are gone.
Return ==
    /\ IF resp.view = "options"
       THEN resp' = NoResp /\ UNCHANGED filtered
       ELSE /\ filtered.err # "none"
            /\ filtered.err = "" => resp.view # "none"
            /\ filtered' = NoFiltered
            /\ resp' = NoResp
    /\ UNCHANGED <<df, last_refresh, svc_df, svc_last_refresh, clock, call, threads,
                   session, http>>

EngineNext ==
    \/ ApplyFilters
    \/ Overview
    \/ ByCategory
    \/ ByRegion
    \/ Trends
    \/ ProfitAnalysis
    \/ SegmentAnalysis
    \/ StateSales
    \/ Repeat
    \/ FilterOptions
    \/ Return

EngineSpec == EngineInit /\ [][EngineNext]_vars

----------------------------------------------------------------------------
(* Properties of the filter engine and of the aggregation engine,          *)
(* checked under EngineSpec.                                               *)

AbsentStr(o) == o = <<>> \/ o[1] = ""
AbsentList(o) == o = <<>> \/ o[1] = <<>>
Members(o) == { o[1][j] : j \in 1..Len(o[1]) }
ParseableDates == {"2023-01-15", "2023-02-20", "2023-03-10"}

RECURSIVE TotalTo(_, _, _)
TotalTo(rows, col, n) ==
    IF n = 0 THEN 0 ELSE TotalTo(rows, col, n - 1) + rows[n][col]
Total(rows, col) == TotalTo(rows, col, Len(rows))
Distinct(rows, col) == { rows[i][col] : i \in 1..Len(rows) }
Abs(x) == IF x < 0 THEN 0 - x ELSE x

\* q is n / d rounded to the nearest integer (either neighbour on a tie).
Nearest(q, n, d) == 2 * Abs(q * d - n) <= Abs(d)

\* C4: a row is in the filter's output iff (start date absent or order
\* date >= start) and (end date absent or order date <= end) and, for each
\* of region, segment and category, (the inclusion set is empty/absent or
\* the row's value is in it); the bounds are inclusive and read the order
\* date only; the output keeps the input's order and columns, and a
\* specification with no constraint returns the input row for row.
C4_FilterSemantics ==
    filtered.err = "" =>
        LET f == filtered
            Keep(r) ==
                /\ AbsentStr(f.start_date)
                      \/ r.order_date >= to_datetime(f.start_date[1])
                /\ AbsentStr(f.end_date)
                      \/ r.order_date <= to_datetime(f.end_date[1])
                /\ AbsentList(f.regions) \/ r.region \in Members(f.regions)
                /\ AbsentList(f.segments) \/ r.segment \in Members(f.segments)
                /\ AbsentList(f.categories) \/ r.category \in Members(f.categories)
        IN  /\ f.table.rows = SelectSeq(f.src.rows, Keep)
            /\ f.table.columns = f.src.columns
            /\ f.src = df
            /\ (/\ AbsentStr(f.start_date) /\ AbsentStr(f.end_date)
                /\ AbsentList(f.regions) /\ AbsentList(f.segments)
                /\ AbsentList(f.categories)) => f.table = f.src

\* A filter with both bounds and a region list that keeps some rows and
\* drops others, keeping a row that was ordered on the bound itself and
\* shipped after the end bound.
C4_Witness ==
    /\ filtered.err = ""
    /\ ~AbsentStr(filtered.start_date)
    /\ ~AbsentStr(filtered.end_date)
    /\ ~AbsentList(filtered.regions)
    /\ Len(filtered.table.rows) >= 1
    /\ Len(filtered.table.rows) < Len(filtered.src.rows)
    /\ \E i \in 1..Len(filtered.table.rows) :
          /\ filtered.table.rows[i].order_date = to_datetime(filtered.start_date[1])
          /\ filtered.table.rows[i].ship_date > to_datetime(filtered.end_date[1])

C6_OverviewTotals ==
    resp.view = "overview" =>
        /\ resp.out.total_sales = Total(resp.src.rows, "sales")
        /\ resp.out.total_profit = Total(resp.src.rows, "profit")
        /\ resp.out.total_orders = Cardinality(Distinct(resp.src.rows, "order_id"))
        /\ resp.out.total_customers =
              Cardinality(Distinct(resp.src.rows, "customer_id"))
        /\ resp.src.rows = SampleRows =>
              /\ resp.out.total_sales = 187500
              /\ resp.out.total_profit = 29500
              /\ resp.out.total_orders = 3
              /\ resp.out.total_customers = 3

\* The overview of the unfiltered fixture: five rows, three orders.
C6_Witness ==
    /\ resp.view = "overview"
    /\ resp.src.rows = SampleRows
    /\ Len(resp.src.rows) = 5
    /\ resp.out.total_orders = 3
    /\ resp.out.total_sales = 187500

\* C7 as stated: avg_order_value is 0.0 exactly when total_orders is 0.
C7_ZeroIffNoOrders ==
    resp.view = "overview" =>
        (resp.out.avg_order_value = 0 <=> resp.out.total_orders = 0)

\* C7, amended: avg_order_value is 0.0 if total_orders is 0; when
\* total_orders > 0 it is total_sales / total_orders rounded to 2
\* decimals, which is 0.0 whenever total_sales is 0.
C7_AvgOrderValue ==
    resp.view = "overview" =>
        /\ resp.out.total_orders = 0 => resp.out.avg_order_value = 0
        /\ resp.out.total_orders > 0 =>
              /\ Nearest(resp.out.avg_order_value, Total(resp.src.rows, "sales"),
                         Cardinality(Distinct(resp.src.rows, "order_id")))
              /\ Total(resp.src.rows, "sales") = 0 => resp.out.avg_order_value = 0

\* An overview of several lines of fewer orders whose average is not 0.
C7_Witness ==
    /\ resp.view = "overview"
    /\ resp.out.total_orders > 0
    /\ resp.out.total_orders < Len(resp.src.rows)
    /\ resp.out.avg_order_value # 0

\* C8: profit_margin is 0.0 when total_sales is 0 and, for every other
\* total_sales, negative ones included, total_profit / total_sales * 100
\* (rounded to 2 decimals).
C8_ProfitMargin ==
    resp.view = "overview" =>
        LET sales == Total(resp.src.rows, "sales")
            profit == Total(resp.src.rows, "profit")
        IN  /\ sales = 0 => resp.out.profit_margin = 0
            /\ sales # 0 => Nearest(resp.out.profit_margin, profit * 10000, sales)

C10_ViewsTotal ==
    resp.view \notin {"none", "options"} =>
        /\ resp.err = ""
        /\ resp.src.rows = <<>> =>
              IF resp.view = "overview"
              THEN resp.out = [total_sales |-> 0, total_profit |-> 0,
                               total_orders |-> 0, total_customers |-> 0,
                               avg_order_value |-> 0, profit_margin |-> 0]
              ELSE resp.out = <<>>

C12_StateSales ==
    (resp.view = "state" /\ "State" \in resp.src.columns) =>
        LET rows == resp.src.rows
            out == resp.out
            Of(g) == SelectSeq(rows, LAMBDA r : r.state = out[g].state)
        IN  /\ resp.err = ""
            /\ Cardinality(DOMAIN state_abbrev) = 51
            /\ { out[g].state : g \in 1..Len(out) } =
                  { rows[i].state : i \in 1..Len(rows) } \cap DOMAIN state_abbrev
            /\ \A g, h \in 1..Len(out) : out[g].state = out[h].state => g = h
            /\ \A g \in 1..Len(out) :
                  /\ out[g].state_code = state_abbrev[out[g].state]
                  /\ out[g].sales = Total(Of(g), "sales")
                  /\ out[g].profit = Total(Of(g), "profit")
                  /\ out[g].orders = Cardinality(Distinct(Of(g), "order_id"))

\* A state analysis of a table that holds a Puerto Rico row beside a row
\* of the District of Columbia: one record, coded DC.
C12_Witness ==
    /\ resp.view = "state"
    /\ resp.err = ""
    /\ \E i \in 1..Len(resp.src.rows) : resp.src.rows[i].state = "Puerto Rico"
    /\ Len(resp.out) = 1
    /\ resp.out[1].state_code = "DC"

\* The month key "YYYY-MM" of a date.
MonthKey(d) == <<d \div 10000, (d \div 100) % 100>>

\* "YYYY-MM" keys compare as strings: by year, then by month.
KeyLess(a, b) == a[1] < b[1] \/ (a[1] = b[1] /\ a[2] < b[2])

\* C13: trends has exactly one record per distinct year-month of the
\* table's order dates, keyed "YYYY-MM", carrying that month's sales sum,
\* profit sum and distinct-order count, in strictly ascending key order.
C13_Trends ==
    resp.view = "trends" =>
        LET rows == resp.src.rows
            out == resp.out
            Of(g) == SelectSeq(rows, LAMBDA r : MonthKey(r.order_date) = out[g].month)
        IN  /\ { out[g].month : g \in 1..Len(out) } =
                  { MonthKey(rows[i].order_date) : i \in 1..Len(rows) }
            /\ \A g \in 1..Len(out) :
                  /\ out[g].month[1] \in 1000..9999
                  /\ out[g].month[2] \in 1..12
                  /\ out[g].sales = Total(Of(g), "sales")
                  /\ out[g].profit = Total(Of(g), "profit")
                  /\ out[g].orders = Cardinality(Distinct(Of(g), "order_id"))
            /\ \A g \in 1..Len(out) :
                  g < Len(out) => KeyLess(out[g].month, out[g + 1].month)

\* Trends of a table whose rows are in December of one year and in
\* January of the next, given in the other order.
C13_Witness ==
    /\ resp.view = "trends"
    /\ Len(resp.out) = 2
    /\ resp.out[1].month = <<2022, 12>>
    /\ resp.out[2].month = <<2023, 1>>
    /\ resp.src.rows[1].order_date > resp.src.rows[Len(resp.src.rows)].order_date

\* The place of a value in the string order of its column.
Rank(col, v) == CHOOSE k \in 1..Len(KeyOrder(col)) : KeyOrder(col)[k] = v

\* A list holds exactly the values of a column, each once, ascending.
SortedValues(list, rows, col) ==
    /\ { list[j] : j \in 1..Len(list) } = Distinct(rows, col)
    /\ \A j \in 1..Len(list) :
          j < Len(list) => Rank(col, list[j]) < Rank(col, list[j + 1])

\* "YYYY-MM-DD" strings compare by year, then month, then day.
DayLessEq(a, b) ==
    \/ a[1] < b[1]
    \/ a[1] = b[1] /\ a[2] < b[2]
    \/ a[1] = b[1] /\ a[2] = b[2] /\ a[3] <= b[3]

\* C14: filter options are computed from the whole cached table, whatever
\* filter another request has applied: regions, segments and categories
\* are the values occurring in the cached table, duplicate-free and
\* ascending, and date_range.min / max are its smallest and largest order
\* date as "YYYY-MM-DD", so min <= max.
C14_FilterOptions ==
    (resp.view = "options" /\ resp.err = "") =>
        LET out == resp.out
        IN  /\ resp.src = df
            /\ SortedValues(out.regions, df.rows, "region")
            /\ SortedValues(out.segments, df.rows, "segment")
            /\ SortedValues(out.categories, df.rows, "category")
            /\ \E i \in 1..Len(df.rows) :
                  /\ out.date_range.min = strftime(df.rows[i].order_date)
                  /\ \A j \in 1..Len(df.rows) :
                        df.rows[i].order_date <= df.rows[j].order_date
            /\ \E i \in 1..Len(df.rows) :
                  /\ out.date_range.max = strftime(df.rows[i].order_date)
                  /\ \A j \in 1..Len(df.rows) :
                        df.rows[i].order_date >= df.rows[j].order_date
            /\ DayLessEq(out.date_range.min, out.date_range.max)

\* Options computed while another request holds a filtered frame with
\* fewer regions than the cached table, whose rows are not in key order
\* and span several days.
C14_Witness ==
    /\ resp.view = "options"
    /\ resp.err = ""
    /\ filtered.err = ""
    /\ Len(resp.out.regions) = 3
    /\ Cardinality(Distinct(filtered.table.rows, "region")) = 1
    /\ df.rows[1].region = "East"
    /\ resp.out.regions[1] = "Central"
    /\ resp.out.date_range.min # resp.out.date_range.max

\* C15: filtering and aggregating never change the cached table, which
\* stays the table that was published; an aggregate leaves the filtered
\* frame it was given as it was (trends writes its month key to a copy);
\* and an aggregate called a second time on the same filtered frame
\* returns the same output.
C15_NoMutation ==
    /\ [][ /\ df' = df
           /\ (filtered.err = "" /\ filtered'.err = "") => filtered' = filtered
           /\ resp'.calls = 2 =>
                 /\ resp'.view = resp.view
                 /\ resp'.src = resp.src
                 /\ resp'.err = resp.err
                 /\ resp'.out = resp.out ]_vars
    /\ [](df = call.table)
    /\ [](filtered.err = "" => filtered.src = df /\ ~filtered.shared)

\* Trends computed a second time on a filtered frame that kept several
\* rows of several months.
C15_Witness ==
    /\ resp.view = "trends"
    /\ resp.calls = 2
    /\ Len(resp.out) >= 2
    /\ Len(filtered.table.rows) < Len(df.rows)
    /\ "Month" \notin filtered.table.columns
    /\ df = call.table

----------------------------------------------------------------------------
(* get_dataframe called from several threads: one step per statement of    *)
(* get_dataframe and _load.  The table under construction is the local df  *)
(* of _load; the caller then serves its request from the reference that    *)
(* get_dataframe returned.                                                 *)

ConcSources ==
    { Payload("timeout", FALSE, FALSE, {}, <<>>),
      Payload("ok", FALSE, FALSE, {}, <<>>),
      Payload("ok", TRUE, TRUE, FullColumns \ {"Profit"}, SampleRows),
      Payload("ok", FALSE, TRUE, FullColumns \ {"Segment", "Sales"}, EdgeRows),
      Payload("ok", TRUE, TRUE, FullColumns, SampleRows),
      Payload("ok", FALSE, TRUE, FullColumns, EdgeRows) }

Goto(t, pc) == threads' = [threads EXCEPT ![t].pc = pc]
Raise(t, kind) == threads' = [threads EXCEPT ![t].pc = "raised", ![t].err = kind]

\* A caller enters get_dataframe(force_refresh=force).
Begin(t) ==
    /\ threads[t].pc = "idle"
    /\ clock < MaxClock
    /\ clock' = clock + 1
    /\ \E force \in BOOLEAN :
          threads' = [threads EXCEPT ![t] = [IdleThread EXCEPT !.pc = "check",
                                                              !.force = force]]
    /\ UNCHANGED <<df, last_refresh, svc_df, svc_last_refresh, call, filtered, resp,
                   session, http>>

\* if force_refresh or self._df is None
Check(t) ==
    /\ threads[t].pc = "check"
    /\ Goto(t, IF threads[t].force \/ df.none THEN "fetch" ELSE "return")
    /\ UNCHANGED <<df, last_refresh, svc_df, svc_last_refresh, clock, call,
                   filtered, resp, session, http>>

\* _load: session.get and raise_for_status
Fetch(t) ==
    /\ threads[t].pc = "fetch"
    /\ \E p \in ConcSources :
          IF p.fetch # "ok"
          THEN Raise(t, "DataLoadError")
          ELSE threads' = [threads EXCEPT ![t].pc = "read", ![t].src = p]
    /\ UNCHANGED <<df, last_refresh, svc_df, svc_last_refresh, clock, call,
                   filtered, resp, session, http>>

\* _load: df = self._read_arrow(...), and the table goes straight into
\* the cache.
ReadArrow_publishing(t) ==
    /\ threads[t].pc = "read"
    /\ LET r == _read_arrow(threads[t].src)
       IN  IF r.err # ""
           THEN Raise(t, "DataLoadError") /\ UNCHANGED df
           ELSE /\ threads' = [threads EXCEPT ![t].pc = "validate",
                                              ![t].tbl = r.table]
                /\ df' = r.table
    /\ UNCHANGED <<last_refresh, svc_df, svc_last_refresh, clock, call,
                   filtered, resp, session, http>>

\* _load: df = self._read_arrow(...)
ReadArrow(t) ==
    /\ threads[t].pc = "read"
    /\ LET r == _read_arrow(threads[t].src)
       IN  IF r.err # ""
           THEN Raise(t, "DataLoadError") /\ UNCHANGED df
           ELSE /\ threads' = [threads EXCEPT ![t].pc = "validate",
                                              ![t].tbl = r.table]
                /\ UNCHANGED df
    /\ UNCHANGED <<last_refresh, svc_df, svc_last_refresh, clock, call,
                   filtered, resp, session, http>>

\* _load: self._validate_schema(df)
Validate(t) ==
    /\ threads[t].pc = "validate"
    /\ LET valid == _validate_schema(threads[t].tbl)
       IN  IF valid.err # ""
           THEN threads' = [threads EXCEPT ![t].pc = "raised",
                                           ![t].err = "DataValidationError",
                                           ![t].missing = valid.missing]
           ELSE Goto(t, "coerce")
    /\ UNCHANGED <<df, last_refresh, svc_df, svc_last_refresh, clock, call,
                   filtered, resp, session, http>>

\* _load: self._coerce_types(df), in place on the local table
Coerce(t) ==
    /\ threads[t].pc = "coerce"
    /\ threads' = [threads EXCEPT ![t].pc = "clean",
                                  ![t].tbl = _coerce_types(threads[t].tbl)]
    /\ UNCHANGED <<df, last_refresh, svc_df, svc_last_refresh, clock, call,
                   filtered, resp, session, http>>

\* _load: self._clean_data(df), in place on the local table; return df
Clean(t) ==
    /\ threads[t].pc = "clean"
    /\ threads' = [threads EXCEPT ![t].pc = "assign",
                                  ![t].tbl = _clean_data(threads[t].tbl)]
    /\ UNCHANGED <<df, last_refresh, svc_df, svc_last_refresh, clock, call,
                   filtered, resp, session, http>>

\* self._df = <the table _load returned>
Assign(t) ==
    /\ threads[t].pc = "assign"
    /\ df' = threads[t].tbl
    /\ Goto(t, "stamp")
    /\ UNCHANGED <<last_refresh, svc_df, svc_last_refresh, clock, call,
                   filtered, resp, session, http>>

\* self._last_refresh = datetime.now(timezone.utc)
Stamp(t) ==
    /\ threads[t].pc = "stamp"
    /\ last_refresh' = clock
    /\ Goto(t, "return")
    /\ UNCHANGED <<df, svc_df, svc_last_refresh, clock, call, filtered, resp,
                   session, http>>

\* return self._df
ReturnDf(t) ==
    /\ threads[t].pc = "return"
    /\ threads' = [threads EXCEPT ![t].pc = "serve", ![t].got = df]
    /\ UNCHANGED <<df, last_refresh, svc_df, svc_last_refresh, clock, call,
                   filtered, resp, session, http>>

\* The caller computes its response from the table it was returned.
Serve(t) ==
    /\ threads[t].pc = "serve"
    /\ threads' = [threads EXCEPT
                      ![t].pc = "done",
                      ![t].out = compute_overview_metrics(threads[t].got)]
    /\ UNCHANGED <<df, last_refresh, svc_df, svc_last_refresh, clock, call,
                   filtered, resp, session, http>>

\* The request is over: its response was sent, or its error raised.
Finish(t) ==
    /\ threads[t].pc \in {"done", "raised"}
    /\ threads' = [threads EXCEPT ![t] = IdleThread]
    /\ UNCHANGED <<df, last_refresh, svc_df, svc_last_refresh, clock, call,
                   filtered, resp, session, http>>

ConcNext ==
    \E t \in Threads :
        \/ Begin(t)
        \/ Check(t)
        \/ Fetch(t)
        \/ ReadArrow(t)
        \/ Validate(t)
        \/ Coerce(t)
        \/ Clean(t)
        \/ Assign(t)
        \/ Stamp(t)
        \/ ReturnDf(t)
        \/ Serve(t)
        \/ Finish(t)

ConcSpec == Init /\ [][ConcNext]_vars

----------------------------------------------------------------------------
(* Properties of concurrent calls, checked under ConcSpec.                 *)

\* A table that was validated, type-coerced and cleaned.
Complete(t) ==
    /\ ~t.none
    /\ REQUIRED_COLUMNS \subseteq t.columns
    /\ \A i \in 1..Len(t.rows) :
          /\ t.rows[i].order_date \notin {NaT, BadDate}
          /\ t.rows[i].ship_date # BadDate
          /\ \A col \in {"sales", "profit", "quantity", "discount"} :
                t.rows[i][col] \notin {NaN, BadNum}

\* C3: with a forced refresh running beside readers, the cache holds, and
\* every reader is returned, a complete table (validated, type-coerced and
\* cleaned), never the table a load is still working on; and a request's
\* response is computed from the one table it was returned.
C3_AtomicPublication ==
    /\ ~df.none => Complete(df)
    /\ \A t \in Threads :
          /\ threads[t].pc \in {"serve", "done"} => Complete(threads[t].got)
          /\ threads[t].pc = "done" =>
                /\ threads[t].out.total_sales = Total(threads[t].got.rows, "sales")
                /\ threads[t].out.total_profit = Total(threads[t].got.rows, "profit")
                /\ threads[t].out.total_orders =
                      Cardinality(Distinct(threads[t].got.rows, "order_id"))

\* A forced refresh is about to clean a table that still holds missing
\* values while another thread, which was returned the previous table,
\* has computed its response from it.
C3_Witness ==
    \E a, b \in Threads :
        /\ a # b
        /\ threads[a].force
        /\ threads[a].pc = "clean"
        /\ ~Complete(threads[a].tbl)
        /\ threads[b].pc = "done"
        /\ threads[b].got = df
        /\ threads[b].out.total_orders = 3

\* C17: a load raises DataValidationError exactly for a payload that was
\* deserialized and lacks required columns, and the error names exactly
\* the required columns that the payload lacks; the table is then as it
\* was deserialized (nothing was coerced or cleaned), and the step that
\* raises publishes nothing.  A load that goes on to coerce has every
\* required column.
C17_ValidationError ==
    /\ [](\A t \in Threads :
            /\ (threads[t].pc = "raised" /\ threads[t].err = "DataValidationError") =>
                  /\ threads[t].src.fetch = "ok"
                  /\ threads[t].src.feather \/ threads[t].src.stream
                  /\ threads[t].missing = REQUIRED_COLUMNS \ threads[t].src.columns
                  /\ threads[t].missing # {}
                  /\ threads[t].tbl = Table(threads[t].src.columns, threads[t].src.rows)
            /\ (threads[t].pc = "raised" /\ threads[t].err = "DataLoadError") =>
                  /\ threads[t].missing = {}
                  /\ threads[t].src.fetch = "ok" =>
                        ~(threads[t].src.feather \/ threads[t].src.stream)
            /\ threads[t].pc \in {"coerce", "clean", "assign"} =>
                  REQUIRED_COLUMNS \subseteq threads[t].src.columns)
    /\ [][\A t \in Threads :
             (threads[t].pc # "raised" /\ threads'[t].pc = "raised") =>
                 df' = df /\ last_refresh' = last_refresh]_vars

\* A forced refresh raised DataValidationError for a payload that lacks
\* two required columns and holds entries that would not survive coercion
\* and cleaning, while an earlier table stays cached.
C17_Witness ==
    \E t \in Threads :
        /\ threads[t].pc = "raised"
        /\ threads[t].err = "DataValidationError"
        /\ threads[t].missing = {"Segment", "Sales"}
        /\ \E i \in 1..Len(threads[t].tbl.rows) :
              threads[t].tbl.rows[i].order_date = BadDate
        /\ ~df.none

----------------------------------------------------------------------------
(* Properties of the fetch, checked under FetchSpec.                       *)

\* The DataLoadError that _load raises for the way the fetch ended.
FetchError == _load(Payload(session.fetch, FALSE, FALSE, {}, <<>>))

LastOutcome == session.history[Len(session.history)]

\* The messages that tell the condition an outcome stands for: a failure
\* to connect, a timeout, or a response with an error status.
Telling(o) ==
    CASE o.kind = "connect" -> {"connection"}
      [] o.kind = "connect_timeout" -> {"connection", "timeout"}
      [] o.kind = "read_timeout" -> {"timeout"}
      [] o.kind = "status" -> {"http", "request"}

Transient(o) ==
    \/ o.kind \in {"connect", "connect_timeout", "read_timeout"}
    \/ o.kind = "status" /\ o.status \in {429, 500, 502, 503, 504}

\* C16: a fetch that ends in a connection error, a timeout or a non-2xx
\* status makes the load raise DataLoadError, and the error raised tells
\* which of the three it was, also when the retries were used up first.
C16_FetchFailuresDistinct ==
    (session.pc = "done" /\ session.fetch # "ok") =>
        /\ FetchError.err = "DataLoadError"
        /\ FetchError.msg \in Telling(LastOutcome)

\* C18 as stated: one load makes at most 3 requests.
C18_AtMostThreeAttempts == session.attempts <= 3

\* C18, amended: one load makes at most RetryTotal + 1 = 4 requests (the
\* first and three retries); against a source that keeps answering with a
\* transient status or keeps failing to connect or timing out it makes
\* exactly 4 and then raises DataLoadError; and every fetch that was
\* started ends.
C18_BoundedRetries ==
    /\ [](session.attempts <= RetryTotal + 1)
    /\ [](session.pc = "sending" => session.attempts <= RetryTotal)
    /\ []((session.pc = "done" /\ Transient(LastOutcome)) =>
              /\ session.attempts = RetryTotal + 1
              /\ session.fetch # "ok"
              /\ FetchError.err = "DataLoadError")
    /\ (session.pc = "sending") ~> (session.pc = "done")

\* A load that met 503 four times and raised.
C18_Witness ==
    /\ session.pc = "done"
    /\ session.attempts = 4
    /\ \A i \in 1..4 : session.history[i] = Status(503)
    /\ FetchError.err = "DataLoadError"

\* C19: a request is followed by another one only if it met a status of
\* 429, 500, 502, 503 or 504, a connection error or a timeout; a response
\* with any other 4xx status ends the fetch at once, with the HTTP-status
\* DataLoadError, so a load whose first response is such a status makes
\* exactly one request.
C19_NoRetryOnClientError ==
    /\ session.attempts = Len(session.history)
    /\ \A i \in 1..Len(session.history) :
          i < Len(session.history) => Transient(session.history[i])
    /\ \A i \in 1..Len(session.history) :
          LET o == session.history[i]
          IN  (o.kind = "status" /\ o.status \in 400..499 /\ o.status # 429) =>
                  /\ i = Len(session.history)
                  /\ session.pc \in {"response", "raised", "done"}
                  /\ session.pc = "done" =>
                        /\ session.fetch = "http"
                        /\ session.status = o.status
                        /\ FetchError.err = "DataLoadError"

\* A load whose first response was 404: one request, the HTTP-status error.
C19_Witness ==
    /\ session.pc = "done"
    /\ session.history = <<Status(404)>>
    /\ session.attempts = 1
    /\ session.fetch = "http"

----------------------------------------------------------------------------
(* Properties of the request boundary, checked under RequestSpec.          *)

\* A filter specification whose dates parse (or are absent).
WellTyped(f) ==
    /\ (TruthyStr(f.start_date) => to_datetime(f.start_date[1]) # BadDate)
    /\ (TruthyStr(f.end_date) => to_datetime(f.end_date[1]) # BadDate)

\* C21: a geo-sales request with a well-typed filter specification, made to
\* the application while the service's table is loaded, is answered with
\* status 200 and the rows of the state analysis of the filtered table, and
\* does not end in an error.
C21_GeoSalesCompletes ==
    (/\ http.pc = "done"
     /\ http.app = "routers"
     /\ http.endpoint = "geo-sales"
     /\ http.stage # "raised"
     /\ WellTyped(http.f)
     /\ ~svc_df.none)
        => /\ http.class = ""
           /\ http.response.status = 200
           /\ http.data = compute_state_sales(_apply_filters(svc_df, http.f).table).out

C23_LoadFailureTold ==
    (http.pc = "done" /\ http.app = "routers" /\ http.stage = "load") =>
        LET status == http.response.status
            code == http.response.body.code
        IN  /\ http.cause \in {"connection", "timeout", "http", "request", "parse"}
                   => (status = 503 /\ code = "DATA_LOAD_ERROR")
            /\ http.cause = "missing" => code = "DATA_VALIDATION_ERROR"
            /\ code # "INTERNAL_ERROR"

\* C24: the answer to an unexpected exception does not depend on the
\* exception's text: it equals the answer the same handlers gave to the
\* last unexpected exception, whatever the two texts, and the text is in
\* no field of the body.
C24_GenericResponse ==
    (/\ http.pc = "done"
     /\ http.class # ""
     /\ (http.app = "main" \/ Unexpected(http.class)))
        => /\ http.prev.app = http.app => http.response = http.prev.response
           /\ http.text \notin {http.response.body.message, http.response.body.detail}

----------------------------------------------------------------------------
(* Further properties of the engine, checked under EngineSpec.             *)

\* C25: computing the filter options of a cached table never fails, the
\* table without rows included: there the three lists are empty.
C25_FilterOptionsTotal ==
    resp.view = "options" =>
        /\ resp.err = ""
        /\ resp.src.rows = <<>> =>
              /\ resp.out.regions = <<>>
              /\ resp.out.segments = <<>>
              /\ resp.out.categories = <<>>

\* The DataService method that computes a view.
MethodOf(view) ==
    CASE view = "overview" -> "get_overview_metrics"
      [] view = "by_category" -> "get_sales_by_category"
      [] view = "by_region" -> "get_sales_by_region"
      [] view = "trends" -> "get_sales_trends"
      [] view = "profit" -> "get_profit_analysis"
      [] view = "segment" -> "get_segment_analysis"
      [] view = "options" -> "get_filter_options"

\* The filter specification of the request.
RequestSpecification ==
    FilterSpec(filtered.start_date, filtered.end_date, filtered.regions,
               filtered.segments, filtered.categories)

\* C29: the two implementations agree.  On the table and the specification
\* of the request, DataService._apply_filters raises or returns what
\* apply_filters did; each of the six filtered DataService methods raises
\* when apply_filters raised, and returns what its analytics function
\* returned on the frame apply_filters gave; get_filter_options, which
\* takes no specification, does on the cached table what
\* compute_filter_options did.
C29_ImplementationsAgree ==
    /\ filtered.err # "none" =>
          LET mine == _apply_filters(filtered.src, RequestSpecification)
          IN  /\ mine.err = filtered.err
              /\ (filtered.err = "" /\ resp.view = "none")
                     => mine.table = filtered.table
              /\ filtered.err # "" =>
                    \A view \in {"overview", "by_category", "by_region", "trends",
                                 "profit", "segment"} :
                        CallMethod(MethodOf(view), filtered.src,
                                   RequestSpecification).err = filtered.err
    /\ (resp.view \notin {"none", "state", "options"} /\ filtered.err = "") =>
          LET mine == CallMethod(MethodOf(resp.view), filtered.src,
                                 RequestSpecification)
          IN  /\ mine.err = resp.err
              /\ mine.out = resp.out
    /\ resp.view = "options" =>
          LET mine == CallMethod("get_filter_options", resp.src,
                                 RequestSpecification)
          IN  /\ mine.err = resp.err
              /\ resp.err = "" => mine.out = resp.out

\* A profit analysis of the East rows of a table that has other rows too,
\* with a group whose sales are negative.
C29_Witness ==
    /\ resp.view = "profit"
    /\ resp.err = ""
    /\ filtered.regions = << <<"East">> >>
    /\ Len(filtered.table.rows) < Len(filtered.src.rows)
    /\ \E g \in 1..Len(resp.out) :
          resp.out[g].sales < 0 /\ resp.out[g].profit_margin # 0

\* The group a row falls in under a grouping view.
GroupOf(view, r) ==
    CASE view = "by_category" -> <<r.category>>
      [] view = "by_region" -> <<r.region>>
      [] view = "segment" -> <<r.segment>>
      [] view = "trends" -> <<r.order_date \div 100>>

\* C30: for the category, region, segment and trends grouping of a
\* filtered table, the groups' "orders" add up to at least the overview's
\* total_orders of the same table, and to exactly that when no order
\* identifier has rows in two groups; total_orders and total_customers of
\* an overview are at most the number of rows.
C30_OrdersNotAdditive ==
    /\ (resp.view \in {"by_category", "by_region", "segment", "trends"}
            /\ resp.err = "") =>
          LET rows == resp.src.rows
              sum == Total(resp.out, "orders")
              total_orders == compute_overview_metrics(resp.src).total_orders
              Spans == \E i, j \in 1..Len(rows) :
                          /\ rows[i].order_id = rows[j].order_id
                          /\ GroupOf(resp.view, rows[i]) # GroupOf(resp.view, rows[j])
          IN  /\ total_orders = Cardinality(Distinct(rows, "order_id"))
              /\ sum >= total_orders
              /\ sum = total_orders <=> ~Spans
    /\ (resp.view = "overview" /\ resp.err = "") =>
          /\ resp.out.total_orders <= Len(resp.src.rows)
          /\ resp.out.total_customers <= Len(resp.src.rows)

\* The category grouping of a table in which one order has lines in two
\* categories: the counts add up to more than the number of orders.
C30_Witness ==
    /\ resp.view = "by_category"
    /\ resp.err = ""
    /\ Len(resp.out) = 3
    /\ Total(resp.out, "orders") = 5
    /\ Cardinality(Distinct(resp.src.rows, "order_id")) = 3

----------------------------------------------------------------------------
(* A further property of concurrent get_dataframe calls, checked under     *)
(* ConcSpec.                                                               *)

\* C28: in every state, between the steps of concurrent get_dataframe
\* calls too, a refresh timestamp is there only if a table is, a visible
\* table has its timestamp, and that timestamp is the one of the load that
\* produced the table: no call whose table is the visible one has yet to
\* record its timestamp.
C28_TimestampAccompaniesTable ==
    /\ last_refresh # 0 => ~df.none
    /\ ~df.none =>
          /\ last_refresh # 0
          /\ \A t \in Threads : ~(threads[t].pc = "stamp" /\ threads[t].tbl = df)

====
